---- MODULE Spec2Model ----
(***************************************************************************)
(* A model of bodywork_pipeline_utils.aws: the filename codec, the         *)
(* artefact descriptor, the latest-artefact resolver, the dataset and      *)
(* upload functions and the Model envelope, working against an S3 bucket.  *)
(*                                                                         *)
(* Python strings are sequences of one-character strings, so that the      *)
(* regular expressions, str.lower, str.endswith and the string formatting  *)
(* of the source act on characters.  Python values of differing types are  *)
(* records with a "kind" field; an exception leaving a function is the     *)
(* record [kind |-> "raise", exc |-> <class>, msg |-> <message template>]. *)
(***************************************************************************)
EXTENDS Integers, Sequences, FiniteSets, TLC

VARIABLES
    store,   \* the objects held by S3, in the order a listing returns them
    calls,   \* the s3_client calls issued by the operation that ran last
    ret,     \* the operation that ran last: its arguments and its outcome
    models,  \* the Model envelopes constructed so far, as their callers hold them
    clock,   \* what datetime.now() returns
    environ, \* os.environ's GIT_COMMIT_HASH entry, None when it has none
    temp_files  \* the paths of the temporary files on the local disk

vars == <<store, calls, ret, models, clock, environ, temp_files>>

\* what the codec, the descriptor, the resolver and the uploads leave alone
envelope_vars == <<models, clock, environ>>

\* what an operation that opens no temporary file leaves alone
local_vars == <<envelope_vars, temp_files>>

----------------------------------------------------------------------------
(* Characters and the classes the regular expressions use (ASCII).          *)

DigitChars == <<"0", "1", "2", "3", "4", "5", "6", "7", "8", "9">>

LowerChars == <<"a", "b", "c", "d", "e", "f", "g", "h", "i", "j", "k", "l", "m",
                "n", "o", "p", "q", "r", "s", "t", "u", "v", "w", "x", "y", "z">>

UpperChars == <<"A", "B", "C", "D", "E", "F", "G", "H", "I", "J", "K", "L", "M",
                "N", "O", "P", "Q", "R", "S", "T", "U", "V", "W", "X", "Y", "Z">>

Range(f) == {f[i] : i \in DOMAIN f}

DigitSet == Range(DigitChars)

UpperSet == Range(UpperChars)

\* \w
WordSet == DigitSet \cup Range(LowerChars) \cup UpperSet \cup {"_"}

\* \s
SpaceSet == {" ", "\t", "\n", "\r", "\f"}

IsDigit(c) == c \in DigitSet

IsWord(c) == c \in WordSet

\* \W
IsNonWord(c) == c \notin WordSet

\* [\sT]
IsSpaceOrT(c) == c \in SpaceSet \cup {"T"}

DigitVal(c) == CHOOSE d \in 0..9 : DigitChars[d + 1] = c

LowerChar(c) ==
    IF c \in UpperSet
    THEN LowerChars[CHOOSE i \in DOMAIN UpperChars : UpperChars[i] = c]
    ELSE c

\* str.lower()
Lower(s) == [i \in DOMAIN s |-> LowerChar(s[i])]

\* str.endswith("/")
EndsWithSlash(s) == Len(s) > 0 /\ s[Len(s)] = "/"

\* str.startswith(p)
StartsWith(s, p) == Len(p) <= Len(s) /\ SubSeq(s, 1, Len(p)) = p

----------------------------------------------------------------------------
(* Python values.                                                           *)

None == [kind |-> "None"]

Raise(exc, msg) == [kind |-> "raise", exc |-> exc, msg |-> msg]

Raised(v) == v.kind = "raise"

\* a naive datetime.datetime
DateTime(y, mo, d, h, mi, s, us) ==
    [kind |-> "datetime", year |-> y, month |-> mo, day |-> d,
     hour |-> h, minute |-> mi, second |-> s, microsecond |-> us]

IsLeap(y) == (y % 4 = 0) /\ ((y % 100 # 0) \/ (y % 400 = 0))

DaysInMonth(y, m) ==
    IF m = 2 THEN (IF IsLeap(y) THEN 29 ELSE 28)
    ELSE IF m \in {4, 6, 9, 11} THEN 30 ELSE 31

\* the range checks of the datetime constructor
ValidFields(y, mo, d, h, mi, s) ==
    /\ y \in 1..9999
    /\ mo \in 1..12
    /\ d >= 1 /\ d <= DaysInMonth(y, mo)
    /\ h \in 0..23
    /\ mi \in 0..59
    /\ s \in 0..59

\* datetime.__lt__ of two naive datetimes: the fields, most significant first
DateTimeTuple(t) ==
    <<t.year, t.month, t.day, t.hour, t.minute, t.second, t.microsecond>>

RECURSIVE TupleLess(_, _)
TupleLess(a, b) ==
    IF a = <<>> \/ b = <<>> THEN FALSE
    ELSE IF Head(a) # Head(b) THEN Head(a) < Head(b)
    ELSE TupleLess(Tail(a), Tail(b))

DateTimeLess(a, b) == TupleLess(DateTimeTuple(a), DateTimeTuple(b))

\* "%0<w>d" % n
RECURSIVE Pad(_, _)
Pad(n, w) ==
    IF w = 0 THEN <<>>
    ELSE Pad(n \div 10, w - 1) \o <<DigitChars[(n % 10) + 1]>>

\* mutant of IsoFormatSeconds: timespec left at 'auto', which appends the
\* microseconds when there are any
IsoFormatAuto(t) ==
    Pad(t.year, 4) \o <<"-">> \o Pad(t.month, 2) \o <<"-">> \o Pad(t.day, 2)
        \o <<"T">>
        \o Pad(t.hour, 2) \o <<":">> \o Pad(t.minute, 2) \o <<":">> \o Pad(t.second, 2)
        \o (IF t.microsecond # 0 THEN <<".">> \o Pad(t.microsecond, 6) ELSE <<>>)

\* datetime.isoformat(sep='T', timespec='seconds'): the microseconds are dropped
IsoFormatSeconds(t) ==
    Pad(t.year, 4) \o <<"-">> \o Pad(t.month, 2) \o <<"-">> \o Pad(t.day, 2)
        \o <<"T">>
        \o Pad(t.hour, 2) \o <<":">> \o Pad(t.minute, 2) \o <<":">> \o Pad(t.second, 2)

AllDigits(s) == \A i \in DOMAIN s : IsDigit(s[i])

\* int(s) of a string of digits
RECURSIVE ParseInt(_)
ParseInt(s) ==
    IF s = <<>> THEN 0
    ELSE 10 * ParseInt(SubSeq(s, 1, Len(s) - 1)) + DigitVal(s[Len(s)])

\* datetime.fromisoformat of a string without fraction or UTC offset:
\* YYYY-MM-DD[*HH[:MM[:SS]]], the date separators '-' and the time separators
\* ':' exactly, any one character between date and time.  Every string the
\* timestamp decode hands over has 10 or 19 characters and no offset.
FromIsoFormat(s) ==
    LET n  == Len(s)
        bad == Raise("ValueError", "Invalid isoformat string")
        dateOk ==
            /\ n >= 10
            /\ AllDigits(SubSeq(s, 1, 4)) /\ s[5] = "-"
            /\ AllDigits(SubSeq(s, 6, 7)) /\ s[8] = "-"
            /\ AllDigits(SubSeq(s, 9, 10))
        timeOk ==
            /\ n \in {10, 13, 16, 19}
            /\ n >= 13 => AllDigits(SubSeq(s, 12, 13))
            /\ n >= 16 => s[14] = ":" /\ AllDigits(SubSeq(s, 15, 16))
            /\ n >= 19 => s[17] = ":" /\ AllDigits(SubSeq(s, 18, 19))
    IN  IF ~(dateOk /\ timeOk) THEN bad
        ELSE LET y  == ParseInt(SubSeq(s, 1, 4))
                 mo == ParseInt(SubSeq(s, 6, 7))
                 d  == ParseInt(SubSeq(s, 9, 10))
                 h  == IF n >= 13 THEN ParseInt(SubSeq(s, 12, 13)) ELSE 0
                 mi == IF n >= 16 THEN ParseInt(SubSeq(s, 15, 16)) ELSE 0
                 se == IF n >= 19 THEN ParseInt(SubSeq(s, 18, 19)) ELSE 0
             IN  IF ValidFields(y, mo, d, h, mi, se)
                 THEN DateTime(y, mo, d, h, mi, se, 0)
                 ELSE Raise("ValueError", "field out of range")

----------------------------------------------------------------------------
(* The filename codec.                                                      *)

Csv == <<"c", "s", "v">>

Parquet == <<"p", "a", "r", "q", "u", "e", "t">>

Pkl == <<"p", "k", "l">>

FILE_FORMAT_EXTENSIONS ==
    [e \in {Csv, Parquet, Pkl} |->
        IF e = Csv THEN "CSV" ELSE IF e = Parquet THEN "PARQUET" ELSE "PICKLE"]

\* f"{prefix}_{ref_date.isoformat(sep='T', timespec='seconds')}.{file_format}"
make_timestamped_filename(prefix, ref_date, file_format) ==
    prefix \o <<"_">> \o IsoFormatSeconds(ref_date) \o <<".">> \o file_format

\* \d{4}\W\d{2}\W\d{2} matches s at position i
DatePatternAt(s, i) ==
    /\ i + 9 <= Len(s)
    /\ AllDigits(SubSeq(s, i, i + 3)) /\ IsNonWord(s[i + 4])
    /\ AllDigits(SubSeq(s, i + 5, i + 6)) /\ IsNonWord(s[i + 7])
    /\ AllDigits(SubSeq(s, i + 8, i + 9))

\* [\sT]\d{2}\W\d{2}\W\d{2} matches s at position i
TimePatternAt(s, i) ==
    /\ i + 8 <= Len(s)
    /\ IsSpaceOrT(s[i])
    /\ AllDigits(SubSeq(s, i + 1, i + 2)) /\ IsNonWord(s[i + 3])
    /\ AllDigits(SubSeq(s, i + 4, i + 5)) /\ IsNonWord(s[i + 6])
    /\ AllDigits(SubSeq(s, i + 7, i + 8))

\* mutant of FirstTimestampMatch: the alternatives of the regex swapped, so
\* that the bare date wins at every position
FirstTimestampMatchDateFirst(s) ==
    LET hits == {i \in 1..Len(s) : DatePatternAt(s, i)}
    IN  IF hits = {} THEN <<>>
        ELSE LET i == CHOOSE j \in hits : \A k \in hits : j <= k
             IN  SubSeq(s, i, i + 9)

\* findall(regex, s)[0]: the leftmost match, the date-time alternative tried
\* before the bare date at each position; <<>> when findall returns []
FirstTimestampMatch(s) ==
    LET hits == {i \in 1..Len(s) : DatePatternAt(s, i)}
    IN  IF hits = {} THEN <<>>
        ELSE LET i == CHOOSE j \in hits : \A k \in hits : j <= k
             IN  IF TimePatternAt(s, i + 10)
                 THEN SubSeq(s, i, i + 18)
                 ELSE SubSeq(s, i, i + 9)

\* sub(r"[\sT](\d{2})\W(\d{2})\W(\d{2})", r"T\1:\2:\3", s) from position i on:
\* every non-overlapping match, leftmost first
RECURSIVE SubTimeFrom(_, _)
SubTimeFrom(s, i) ==
    IF i > Len(s) THEN <<>>
    ELSE IF TimePatternAt(s, i)
    THEN <<"T", s[i + 1], s[i + 2], ":", s[i + 4], s[i + 5], ":", s[i + 7], s[i + 8]>>
             \o SubTimeFrom(s, i + 9)
    ELSE <<s[i]>> \o SubTimeFrom(s, i + 1)

_extract_iso_timestamp_from_string(s) ==
    LET ts_string == FirstTimestampMatch(s)
    IN  IF ts_string # <<>>
        THEN FromIsoFormat(SubTimeFrom(ts_string, 1))
        ELSE None

\* where $ matches: at the end of s, and before a newline that ends s
DollarEnd(s) == IF Len(s) > 0 /\ s[Len(s)] = "\n" THEN Len(s) - 1 ELSE Len(s)

\* \.(\w+)$ matches s at position i
ExtensionPatternAt(s, i) ==
    /\ s[i] = "."
    /\ i < DollarEnd(s)
    /\ \A k \in (i + 1)..DollarEnd(s) : IsWord(s[k])

_extract_file_format_from_string(s) ==
    LET hits == {i \in 1..Len(s) : ExtensionPatternAt(s, i)}
    IN  IF hits # {}
        THEN LET i   == CHOOSE j \in hits : \A k \in hits : j <= k
                 ext == Lower(SubSeq(s, i + 1, DollarEnd(s)))
             IN  IF ext \in DOMAIN FILE_FORMAT_EXTENSIONS
                 THEN [kind |-> "str", value |-> FILE_FORMAT_EXTENSIONS[ext]]
                 ELSE None
        ELSE None

----------------------------------------------------------------------------
(* The artefact descriptor.                                                 *)

\* S3TimestampedArtefact.__init__: an exception raised by
\* datetime.fromisoformat inside the timestamp decode leaves the constructor
\* as it is
S3TimestampedArtefact(bucket, s3_obj_key, s3_etag) ==
    LET _datetime == _extract_iso_timestamp_from_string(s3_obj_key)
    IN  IF Raised(_datetime) THEN _datetime
        ELSE IF _datetime = None
        THEN Raise("ValueError", "has no parsable timestamp.")
        ELSE LET _file_format == _extract_file_format_from_string(s3_obj_key)
             IN  IF _file_format = None
                 THEN Raise("ValueError", "has no supported file format.")
                 ELSE [kind        |-> "S3TimestampedArtefact",
                       bucket      |-> bucket,
                       obj_key     |-> s3_obj_key,
                       etag        |-> s3_etag,
                       timestamp   |-> _datetime,
                       file_format |-> _file_format.value]

IsArtefact(v) == v.kind = "S3TimestampedArtefact"

\* mutant of __lt__: <= in place of <
LessOrEqual(self, other) == ~DateTimeLess(other.timestamp, self.timestamp)

\* S3TimestampedArtefact.__lt__
__lt__(self, other) == DateTimeLess(self.timestamp, other.timestamp)

----------------------------------------------------------------------------
(* The inputs of the codec operations.                                      *)

Str_training_data ==
    <<"t", "r", "a", "i", "n", "i", "n", "g", "_", "d", "a", "t", "a">>

Str_dated_prefix == <<"v", "-", "1", "9", "9", "9", "-", "0", "1", "-", "0", "1">>

Str_foo == <<"f", "o", "o">>

\* filename prefixes handed to make_timestamped_filename
Prefixes == {<<>>, <<"d">>, <<"m", "1", "2">>, Str_training_data, Str_dated_prefix}

\* format arguments handed to make_timestamped_filename
FormatArgs == {Csv, Parquet, Pkl, Str_foo}

\* reference datetimes, with and without sub-second digits
RefDates ==
    {DateTime(y, mo, d, h, mi, s, us) :
        y \in {999, 2021}, mo \in {7, 12}, d \in {7, 12}, h \in {0, 13},
        mi \in {0, 33}, s \in {0, 13}, us \in {0, 500000}}

\* object keys: <head><date-like><time-like><tail>
KeyHeads ==
    {<<>>, <<"d", "_">>, <<"1", "2">>,
     <<"1", "9", "9", "9", "-", "0", "1", "-", "0", "1", "_">>}

DateLikes ==
    {<<"2", "0", "2", "1", s1>> \o mo \o <<s2>> \o d :
        s1 \in {"-", "/", " "}, s2 \in {"-", "/", " "},
        mo \in {<<"0", "2">>, <<"0", "7">>, <<"1", "3">>},
        d \in {<<"0", "7">>, <<"3", "0">>}}

TimeLikes ==
    {<<>>} \cup
    {<<sep>> \o h \o <<s, "3", "3", s, "1", "3">> :
        sep \in {"T", " ", "\n", "_"}, h \in {<<"1", "3">>, <<"2", "5">>},
        s \in {":", "|", " "}}

KeyTails == {<<>>, <<".">> \o Csv, <<".", "P", "k", "L">>, <<".">> \o Str_foo}

DatedKeys ==
    {h \o d \o t \o x : h \in KeyHeads, d \in DateLikes, t \in TimeLikes, x \in KeyTails}

\* object keys without a date: names and extensions of every shape
PlainNames ==
    {<<>>, <<"a">>, <<"a", ".", "b">>, <<"n", "o", "_", "d", "a", "t", "e">>}

PlainTails ==
    {<<>>, <<".">>, <<"\n">>, <<"-">> \o Csv}
        \cup {<<".">> \o e \o n :
                e \in {Csv, Parquet, Pkl, Str_foo, <<"C", "S", "V">>,
                       <<"P", "a", "r", "q", "u", "e", "T">>, <<"c", "s", "v", "1">>,
                       <<"c", "s", "v", ".">>, <<"c", "-", "s", "v">>},
                n \in {<<>>, <<"\n">>}}

PlainKeys == {n \o x : n \in PlainNames, x \in PlainTails}

CodecKeys == DatedKeys \cup PlainKeys

CodecBuckets == {"my-bucket", "other-bucket"}

\* descriptors to compare: three instants, several keys, buckets and tags each
LtKeys ==
    {h \o d \o x :
        h \in {<<>>, <<"d", "_">>},
        d \in {<<"2", "0", "2", "1", "-", "0", "7", "-", "0", "7">>,
               <<"2", "0", "2", "1", "-", "0", "7", "-", "0", "7", "T", "1", "3", ":",
                 "3", "3", ":", "1", "3">>,
               <<"2", "0", "2", "1", "-", "0", "2", "-", "0", "7">>},
        x \in {<<".">> \o Csv}}

LtArtefacts ==
    {S3TimestampedArtefact(b, k, e) : b \in CodecBuckets, k \in LtKeys, e \in {"hash"}}
        \cup {S3TimestampedArtefact("my-bucket", k, "hash2") : k \in LtKeys}

----------------------------------------------------------------------------
(* The codec operations: pure functions, each applied once to an input     *)
(* drawn from the sets above, its result recorded in ret.                   *)

Idle == ret.op = "init"

InitCodec ==
    /\ store = <<>>
    /\ calls = <<>>
    /\ ret = [op |-> "init"]
    /\ models = {}
    /\ clock = DateTime(2021, 1, 1, 0, 0, 0, 0)
    /\ environ = None
    /\ temp_files = {}

MakeTimestampedFilename ==
    /\ Idle
    /\ \E prefix \in Prefixes, ref_date \in RefDates, file_format \in FormatArgs :
        /\ ret' = [op          |-> "make_timestamped_filename",
                   prefix      |-> prefix,
                   ref_date    |-> ref_date,
                   file_format |-> file_format,
                   value       |-> make_timestamped_filename(prefix, ref_date, file_format)]
        /\ UNCHANGED <<store, calls, local_vars>>

ExtractIsoTimestamp ==
    /\ Idle
    /\ \E s \in CodecKeys :
        /\ ret' = [op    |-> "_extract_iso_timestamp_from_string",
                   s     |-> s,
                   value |-> _extract_iso_timestamp_from_string(s)]
        /\ UNCHANGED <<store, calls, local_vars>>

ExtractFileFormat ==
    /\ Idle
    /\ \E s \in CodecKeys :
        /\ ret' = [op    |-> "_extract_file_format_from_string",
                   s     |-> s,
                   value |-> _extract_file_format_from_string(s)]
        /\ UNCHANGED <<store, calls, local_vars>>

ConstructArtefact ==
    /\ Idle
    /\ \E bucket \in CodecBuckets, s3_obj_key \in CodecKeys, s3_etag \in {"hash"} :
        /\ ret' = [op         |-> "S3TimestampedArtefact",
                   bucket     |-> bucket,
                   s3_obj_key |-> s3_obj_key,
                   s3_etag    |-> s3_etag,
                   value      |-> S3TimestampedArtefact(bucket, s3_obj_key, s3_etag)]
        /\ UNCHANGED <<store, calls, local_vars>>

\* a < b, b < a, b < c and a < c over three descriptors
CompareArtefacts ==
    /\ Idle
    /\ \E a \in LtArtefacts, b \in LtArtefacts, c \in LtArtefacts :
        /\ ret' = [op |-> "__lt__", a |-> a, b |-> b, c |-> c,
                   ab |-> __lt__(a, b), ba |-> __lt__(b, a),
                   bc |-> __lt__(b, c), ac |-> __lt__(a, c)]
        /\ UNCHANGED <<store, calls, local_vars>>

NextCodec ==
    \/ MakeTimestampedFilename
    \/ ExtractIsoTimestamp
    \/ ExtractFileFormat
    \/ ConstructArtefact
    \/ CompareArtefacts

SpecCodec == InitCodec /\ [][NextCodec]_vars

----------------------------------------------------------------------------
(* The object store as s3_client sees it.  An object is                     *)
(* [bucket, key, etag, body]; a listing returns the objects of the bucket   *)
(* whose key starts with the prefix, in the order store holds them.         *)

\* how a call of s3_client ends: with a response, with the service's error
\* response (botocore ClientError), or without reaching the service
\* (botocore EndpointConnectionError, a BotoCoreError and no ClientError)
Faults == {"none", "ClientError", "EndpointConnectionError"}

RECURSIVE SelectListed(_, _, _)
SelectListed(objs, bucket, prefix) ==
    IF objs = <<>> THEN <<>>
    ELSE LET o    == Head(objs)
             rest == SelectListed(Tail(objs), bucket, prefix)
         IN  IF o.bucket = bucket /\ StartsWith(o.key, prefix)
             THEN <<[Key |-> o.key, ETag |-> o.etag]>> \o rest
             ELSE rest

\* s3_client.list_objects(Bucket=bucket, Prefix=prefix): the response has no
\* "Contents" entry when no key of the bucket starts with the prefix
s3_list_objects(bucket, prefix, fault) ==
    IF fault # "none" THEN Raise(fault, "list_objects")
    ELSE LET listed == SelectListed(store, bucket, prefix)
         IN  IF listed = <<>>
             THEN [kind |-> "dict", hasContents |-> FALSE, Contents |-> <<>>]
             ELSE [kind |-> "dict", hasContents |-> TRUE, Contents |-> listed]

StoredAt(bucket, key) ==
    {i \in DOMAIN store : store[i].bucket = bucket /\ store[i].key = key}

\* s3_client.get_object(Bucket=bucket, Key=key)
s3_get_object(bucket, key, fault) ==
    IF fault # "none" THEN Raise(fault, "get_object")
    ELSE IF StoredAt(bucket, key) = {} THEN Raise("ClientError", "NoSuchKey")
    ELSE [kind |-> "dict",
          Body |-> [kind  |-> "StreamingBody",
                    bytes |-> store[CHOOSE i \in StoredAt(bucket, key) : TRUE].body]]

----------------------------------------------------------------------------
(* S3TimestampedArtefact.get and the latest-artefact resolver.              *)

\* a RuntimeError of this library: its message names a location, and it is
\* raised while handling the exception cause
RuntimeError(msg, bucket, path, cause) ==
    [kind |-> "raise", exc |-> "RuntimeError", msg |-> msg,
     bucket |-> bucket, path |-> path, cause |-> cause]

\* S3TimestampedArtefact.get: only ClientError is handled
S3TimestampedArtefact_get(self, fault) ==
    LET s3_object == s3_get_object(self.bucket, self.obj_key, fault)
    IN  IF ~Raised(s3_object) THEN s3_object.Body
        ELSE IF s3_object.exc = "ClientError"
        THEN RuntimeError("cannot get artefact from s3://", self.bucket, self.obj_key,
                          s3_object.exc)
        ELSE s3_object

\* mutant of FolderStd: the folder as the caller gave it
FolderAsGiven(folder) == folder

\* folder if folder.endswith("/") or folder == "" else f"{folder}/"
FolderStd(folder) ==
    IF EndsWithSlash(folder) \/ folder = <<>> THEN folder ELSE folder \o <<"/">>

\* the loop over s3_objects["Contents"]: a key the constructor rejects with
\* ValueError is passed over, a descriptor of another format is left out
RECURSIVE ScanContents(_, _, _)
ScanContents(bucket, contents, file_format_) ==
    IF contents = <<>> THEN <<>>
    ELSE LET s3_obj   == Head(contents)
             artefact == S3TimestampedArtefact(bucket, s3_obj.Key, s3_obj.ETag)
             rest     == ScanContents(bucket, Tail(contents), file_format_)
         IN  IF Raised(artefact) THEN rest
             ELSE IF artefact.file_format = file_format_ THEN <<artefact>> \o rest
             ELSE rest

\* sorted(): stable, by __lt__ alone
RECURSIVE InsertSorted(_, _)
InsertSorted(x, sorted) ==
    IF sorted = <<>> THEN <<x>>
    ELSE IF __lt__(x, sorted[Len(sorted)])
    THEN InsertSorted(x, SubSeq(sorted, 1, Len(sorted) - 1)) \o <<sorted[Len(sorted)]>>
    ELSE sorted \o <<x>>

RECURSIVE Sorted(_)
Sorted(xs) ==
    IF xs = <<>> THEN <<>>
    ELSE InsertSorted(xs[Len(xs)], Sorted(SubSeq(xs, 1, Len(xs) - 1)))

\* mutant of LatestOf: sorted(s3_artefacts)[0]
EarliestOf(s3_artefacts) ==
    IF s3_artefacts = <<>> THEN Raise("IndexError", "list index out of range")
    ELSE Sorted(s3_artefacts)[1]

\* sorted(s3_artefacts)[-1]
LatestOf(s3_artefacts) ==
    IF s3_artefacts = <<>> THEN Raise("IndexError", "list index out of range")
    ELSE Sorted(s3_artefacts)[Len(s3_artefacts)]

\* mutant of FormatSupported: the listing issued before the format is looked at
FormatUnchecked(file_format) == TRUE

\* file_format in FILE_FORMAT_EXTENSIONS.keys()
FormatSupported(file_format) == file_format \in DOMAIN FILE_FORMAT_EXTENSIONS

\* the s3_client calls find_latest_artefact_on_s3 issues
find_latest_calls(file_format, bucket, folder) ==
    IF FormatSupported(file_format)
    THEN <<[api |-> "list_objects", Bucket |-> bucket, Prefix |-> FolderStd(folder)]>>
    ELSE <<>>

\* what find_latest_artefact_on_s3 returns or raises, the listing call ending
\* as fault says
find_latest_artefact_on_s3(file_format, bucket, folder, fault) ==
    IF file_format \notin DOMAIN FILE_FORMAT_EXTENSIONS
    THEN Raise("ValueError", "is not a supported file type.")
    ELSE LET file_format_ == FILE_FORMAT_EXTENSIONS[file_format]
             folder_std   == FolderStd(folder)
             s3_objects   == s3_list_objects(bucket, folder_std, fault)
             failed(e)    == RuntimeError("failed to download dataset from s3://",
                                          bucket, folder_std, e)
         IN  IF Raised(s3_objects) THEN failed(s3_objects.exc)
             ELSE IF ~s3_objects.hasContents THEN failed("KeyError")
             ELSE LET latest_artefact ==
                          LatestOf(ScanContents(bucket, s3_objects.Contents, file_format_))
                  IN  IF Raised(latest_artefact)
                      THEN RuntimeError("no valid artefacts found in s3://",
                                        bucket, folder_std, latest_artefact.exc)
                      ELSE latest_artefact

----------------------------------------------------------------------------
(* The store and the requests made of it.                                   *)

MaxObjects == 3

Str_d == <<"d">>

Key_0608_csv ==
    <<"d", "/", "m", "y", "_", "2", "0", "2", "0", "-", "0", "6", "-", "0", "8", "T",
      "0", "0", ":", "0", "0", ":", "0", "0", ".", "c", "s", "v">>

Key_0708_csv ==
    <<"d", "/", "m", "y", "_", "2", "0", "2", "0", "-", "0", "7", "-", "0", "8", "T",
      "0", "1", ":", "0", "0", ":", "0", "0", ".", "c", "s", "v">>

Key_0708_parquet ==
    <<"d", "/", "m", "y", "_", "2", "0", "2", "0", "-", "0", "7", "-", "0", "8", "T",
      "0", "1", ":", "0", "1", ":", "0", "0", ".", "p", "a", "r", "q", "u", "e", "t">>

\* the instant of Key_0708_csv, other separators and an upper-case extension
Key_0708_CSV ==
    <<"d", "/", "x", "_", "2", "0", "2", "0", "-", "0", "7", "-", "0", "8", " ",
      "0", "1", "|", "0", "0", "|", "0", "0", ".", "C", "S", "V">>

Key_readme == <<"d", "/", "r", "e", "a", "d", "m", "e", ".", "c", "s", "v">>

\* date-like, later than every other key, and no date
Key_1308_csv ==
    <<"d", "/", "m", "y", "_", "2", "0", "2", "0", "-", "1", "3", "-", "0", "8",
      ".", "c", "s", "v">>

\* a timestamp later than every other key and no format
Key_0901_none ==
    <<"d", "/", "m", "y", "_", "2", "0", "2", "0", "-", "0", "9", "-", "0", "1">>

\* outside folder d
Key_root_csv ==
    <<"d", "d", "_", "2", "0", "2", "0", "-", "0", "8", "-", "0", "1", ".", "c", "s", "v">>

Object(bucket, key, etag, body) ==
    [bucket |-> bucket, key |-> key, etag |-> etag, body |-> body]

ObjectUniverse ==
    {Object("my-bucket", Key_0608_csv, "etag1", "bytes1"),
     Object("my-bucket", Key_0708_csv, "etag2", "bytes2"),
     Object("my-bucket", Key_0708_parquet, "etag3", "bytes3"),
     Object("my-bucket", Key_0708_CSV, "etag4", "bytes4"),
     Object("my-bucket", Key_readme, "etag5", "bytes5"),
     Object("my-bucket", Key_1308_csv, "etag6", "bytes6"),
     Object("my-bucket", Key_0901_none, "etag7", "bytes7"),
     Object("my-bucket", Key_root_csv, "etag8", "bytes8"),
     Object("other-bucket", Key_0708_csv, "etag9", "bytes9")}

\* every bucket content of at most MaxObjects objects, in every listing order
Stores ==
    UNION {{f \in [1..n -> ObjectUniverse] :
               \A i, j \in 1..n : i # j => f[i] # f[j]} : n \in 0..MaxObjects}

Buckets == {"my-bucket", "other-bucket"}

Folders == {<<>>, Str_d, Str_d \o <<"/">>}

FormatRequests == {Csv, Parquet, Pkl, Str_foo, <<"C", "S", "V">>}

\* the descriptors a caller may hold: of stored objects and of absent ones
Descriptors ==
    {a \in {S3TimestampedArtefact(o.bucket, o.key, o.etag) : o \in ObjectUniverse} :
        IsArtefact(a)}

----------------------------------------------------------------------------
(* The operations on the store.                                             *)

Init ==
    /\ store \in Stores
    /\ calls = <<>>
    /\ ret = [op |-> "init"]
    /\ models = {}
    /\ clock = DateTime(2021, 1, 1, 0, 0, 0, 0)
    /\ environ = None
    /\ temp_files = {}

FindLatestArtefact ==
    /\ Idle
    /\ \E file_format \in FormatRequests, bucket \in Buckets, folder \in Folders,
          fault \in Faults :
        /\ ret' = [op          |-> "find_latest_artefact_on_s3",
                   file_format |-> file_format,
                   bucket      |-> bucket,
                   folder      |-> folder,
                   fault       |-> fault,
                   value       |-> find_latest_artefact_on_s3(
                                       file_format, bucket, folder, fault)]
        /\ calls' = find_latest_calls(file_format, bucket, folder)
        /\ UNCHANGED <<store, local_vars>>

ArtefactGet ==
    /\ Idle
    /\ \E self \in Descriptors, fault \in Faults :
        /\ ret' = [op    |-> "S3TimestampedArtefact.get",
                   self  |-> self,
                   fault |-> fault,
                   value |-> S3TimestampedArtefact_get(self, fault)]
        /\ calls' = <<[api |-> "get_object", Bucket |-> self.bucket, Key |-> self.obj_key]>>
        /\ UNCHANGED <<store, local_vars>>

\* the caller takes the outcome; the next call starts afresh
Return ==
    /\ ~Idle
    /\ ret' = [op |-> "init"]
    /\ calls' = <<>>
    /\ UNCHANGED <<store, local_vars>>

Next ==
    \/ FindLatestArtefact
    \/ ArtefactGet
    \/ Return

Spec == Init /\ [][Next]_vars

----------------------------------------------------------------------------
(* datasets.py: the Dataset tuple and the two get-latest functions.  The    *)
(* module carries its own copies of S3TimestampedArtefact and of the        *)
(* resolver (_find_latest_artefact_on_s3), line for line those of           *)
(* artefacts.py, so the operators above stand for both.                     *)

\* pandas.read_csv(body): the table the bytes decode to
read_csv(body) == [kind |-> "DataFrame", decoder |-> "read_csv", source |-> body.bytes]

\* pandas.read_parquet(body)
read_parquet(body) ==
    [kind |-> "DataFrame", decoder |-> "read_parquet", source |-> body.bytes]

\* mutant of Dataset: the key where the hash belongs
DatasetKeyAsHash(data, datetime, bucket, key, hash) ==
    [kind |-> "Dataset", data |-> data, datetime |-> datetime, bucket |-> bucket,
     key |-> key, hash |-> key]

\* class Dataset(NamedTuple)
Dataset(data, datetime, bucket, key, hash) ==
    [kind |-> "Dataset", data |-> data, datetime |-> datetime, bucket |-> bucket,
     key |-> key, hash |-> hash]

----------------------------------------------------------------------------
(* artefacts.py: put_object_to_s3 and put_file_to_s3.                       *)

Str(value) == [kind |-> "str", value |-> value]

\* the bytes of an upload, and what they encode
Bytes(encoding, of) == [kind |-> "bytes", encoding |-> encoding, of |-> of]

\* hashlib.md5(bytes).hexdigest(), also the entity tag S3 gives an upload
md5(bytes) == [kind |-> "md5", of |-> bytes]

\* pickle.dumps(obj, protocol=5): a function defined by lambda has no
\* importable name (PicklingError), a lock cannot be reduced (TypeError)
pickle_dumps(obj) ==
    IF obj.kind = "function" THEN Raise("PicklingError", "Can't pickle <function <lambda>>")
    ELSE IF obj.kind = "lock" THEN Raise("TypeError", "cannot pickle '_thread.lock' object")
    ELSE Bytes("pickle5", obj)

\* the store after s3_client.put_object / upload_file wrote body at
\* (bucket, key): an object already at the key is replaced
s3_write(bucket, key, body) ==
    IF StoredAt(bucket, key) = {}
    THEN Append(store, Object(bucket, key, md5(body), body))
    ELSE [i \in DOMAIN store |->
             IF i \in StoredAt(bucket, key)
             THEN Object(bucket, key, md5(body), body) ELSE store[i]]

\* the outcome of an operation that may write: what it returns or raises, the
\* s3_client calls it issued and the store it leaves
Outcome(value, issued, store_after) ==
    [value |-> value, calls |-> issued, store |-> store_after]

\* the failures of a write call: botocore's ClientError and BotoCoreError
\* family, and the S3UploadFailedError boto3's transfer manager raises
UploadFaults == Faults \cup {"S3UploadFailedError"}

put_object_to_s3(obj, file_name, bucket, folder, fault) ==
    LET folder_std == FolderStd(folder)
        s3_key     == folder_std \o file_name
        obj_bytes  == pickle_dumps(obj)
        put_call   == <<[api |-> "put_object", Bucket |-> bucket, Key |-> s3_key]>>
    IN  IF Raised(obj_bytes)
        THEN IF obj_bytes.exc = "PicklingError"
             THEN Outcome(Raise("RuntimeError",
                                "could not serialise object to bytes with pickle"),
                          <<>>, store)
             ELSE Outcome(obj_bytes, <<>>, store)
        ELSE IF fault = "none"
        THEN Outcome(None, put_call, s3_write(bucket, s3_key, obj_bytes))
        ELSE IF fault = "ClientError"
        THEN Outcome(Raise("RuntimeError", "could upload object to AWS S3"),
                     put_call, store)
        ELSE Outcome(Raise(fault, "put_object"), put_call, store)

\* the local files: path, and the bytes held there
LocalFile(path, content) == [path |-> path, content |-> content]

\* Path(path_to_file).exists()
PathExists(files, path_to_file) == \E f \in files : f.path = path_to_file

ContentAt(files, path_to_file) == (CHOOSE f \in files : f.path = path_to_file).content

\* Path(path_to_file).name: what follows the last "/"
RECURSIVE PathName(_)
PathName(path_to_file) ==
    IF path_to_file = <<>> THEN <<>>
    ELSE IF path_to_file[Len(path_to_file)] = "/" THEN <<>>
    ELSE PathName(SubSeq(path_to_file, 1, Len(path_to_file) - 1))
         \o <<path_to_file[Len(path_to_file)]>>

\* filename_override is None or a Str; the empty string counts as not given
put_file_to_s3(path_to_file, bucket, folder, filename_override, files, fault) ==
    LET s3_filename == IF filename_override.kind = "None" \/ filename_override.value = <<>>
                       THEN PathName(path_to_file) ELSE filename_override.value
        folder_std  == FolderStd(folder)
        s3_key      == folder_std \o s3_filename
        put_call    == <<[api |-> "upload_file", Bucket |-> bucket, Key |-> s3_key]>>
    IN  IF ~PathExists(files, path_to_file)
        THEN Outcome(Raise("FileExistsError", "Cannot open file at"), <<>>, store)
        ELSE IF fault = "none"
        THEN Outcome(None, put_call,
                     s3_write(bucket, s3_key, ContentAt(files, path_to_file)))
        ELSE IF fault = "ClientError"
        THEN Outcome(Raise("RuntimeError", "could upload file to AWS S3"),
                     put_call, store)
        ELSE Outcome(Raise(fault, "upload_file"), put_call, store)

----------------------------------------------------------------------------
(* Uploads into a bucket that starts empty, with listings and fetches.      *)

Str_my_dated_pkl ==
    <<"m", "y", "_", "2", "0", "2", "1", "-", "0", "1", "-", "0", "1", ".", "p", "k", "l">>

Path_dataset_csv ==
    <<"r", "e", "s", "o", "u", "r", "c", "e", "s", "/", "d", "a", "t", "a", "_",
      "2", "0", "2", "1", "-", "0", "2", "-", "0", "2", ".", "c", "s", "v">>

Path_foo_csv == <<"r", "e", "s", "o", "u", "r", "c", "e", "s", "/", "f", "o", "o", ".", "c", "s", "v">>

Str_foo_bar == <<"f", "o", "o", ".", "b", "a", "r">>

PyList == [kind |-> "list", items |-> <<1, 2, 3>>]

PyLambda == [kind |-> "function", items |-> <<>>]

PyLock == [kind |-> "lock", items |-> <<>>]

PyObjects == {PyList, PyLambda, PyLock}

\* the files on the local disk: Path_foo_csv is not among them
LocalFiles == {LocalFile(Path_dataset_csv, Bytes("csv", PyList))}

LocalPaths == {Path_dataset_csv, Path_foo_csv}

FilenameOverrides == {None, Str(<<>>), Str(Str_foo_bar)}

UploadBuckets == {"my-bucket"}

\* descriptors of the keys the uploads write, held by a caller
UploadDescriptors ==
    {S3TimestampedArtefact("my-bucket", FolderStd(folder) \o name, "etag") :
        folder \in Folders, name \in {Str_my_dated_pkl, PathName(Path_dataset_csv)}}

InitUpload ==
    /\ store = <<>>
    /\ calls = <<>>
    /\ ret = [op |-> "init"]
    /\ models = {}
    /\ clock = DateTime(2021, 1, 1, 0, 0, 0, 0)
    /\ environ = None
    /\ temp_files = {}

PutObjectToS3 ==
    /\ Idle
    /\ \E obj \in PyObjects, bucket \in UploadBuckets, folder \in Folders,
          fault \in UploadFaults :
        \E outcome \in {put_object_to_s3(obj, Str_my_dated_pkl, bucket, folder, fault)} :
            /\ ret' = [op        |-> "put_object_to_s3",
                       obj       |-> obj,
                       file_name |-> Str_my_dated_pkl,
                       bucket    |-> bucket,
                       folder    |-> folder,
                       fault     |-> fault,
                       value     |-> outcome.value]
            /\ calls' = outcome.calls
            /\ store' = outcome.store
            /\ UNCHANGED local_vars

PutFileToS3 ==
    /\ Idle
    /\ \E path_to_file \in LocalPaths, bucket \in UploadBuckets, folder \in Folders,
          filename_override \in FilenameOverrides, fault \in UploadFaults :
        \E outcome \in {put_file_to_s3(path_to_file, bucket, folder, filename_override,
                                      LocalFiles, fault)} :
            /\ ret' = [op                |-> "put_file_to_s3",
                       path_to_file      |-> path_to_file,
                       bucket            |-> bucket,
                       folder            |-> folder,
                       filename_override |-> filename_override,
                       fault             |-> fault,
                       value             |-> outcome.value]
            /\ calls' = outcome.calls
            /\ store' = outcome.store
            /\ UNCHANGED local_vars

\* find_latest_artefact_on_s3 on the bucket the uploads write to
FindLatestUploaded ==
    /\ Idle
    /\ \E file_format \in {Csv, Pkl}, bucket \in UploadBuckets, folder \in Folders,
          fault \in Faults :
        /\ ret' = [op          |-> "find_latest_artefact_on_s3",
                   file_format |-> file_format,
                   bucket      |-> bucket,
                   folder      |-> folder,
                   fault       |-> fault,
                   value       |-> find_latest_artefact_on_s3(
                                       file_format, bucket, folder, fault)]
        /\ calls' = find_latest_calls(file_format, bucket, folder)
        /\ UNCHANGED <<store, local_vars>>

\* S3TimestampedArtefact.get on a descriptor of an uploaded key
GetUploaded ==
    /\ Idle
    /\ \E self \in UploadDescriptors, fault \in Faults :
        /\ ret' = [op    |-> "S3TimestampedArtefact.get",
                   self  |-> self,
                   fault |-> fault,
                   value |-> S3TimestampedArtefact_get(self, fault)]
        /\ calls' = <<[api |-> "get_object", Bucket |-> self.bucket, Key |-> self.obj_key]>>
        /\ UNCHANGED <<store, local_vars>>

NextUpload ==
    \/ PutObjectToS3
    \/ PutFileToS3
    \/ FindLatestUploaded
    \/ GetUploaded
    \/ Return

SpecUpload == InitUpload /\ [][NextUpload]_vars

----------------------------------------------------------------------------
(* s3.py: the put_file_to_s3 that datasets.py imports, and the two dataset  *)
(* put functions of datasets.py.                                            *)

\* s3.put_file_to_s3(path_to_file, bucket, folder=""), called with the
\* positional arguments args: a call with more than three does not bind
s3_put_file_to_s3(args, files, fault) ==
    IF Len(args) > 3
    THEN Outcome(Raise("TypeError",
                       "put_file_to_s3() takes from 2 to 3 positional arguments"),
                 <<>>, store)
    ELSE LET path_to_file == args[1]
             bucket       == args[2]
             folder       == IF Len(args) = 3 THEN args[3] ELSE <<>>
             folder_std   == FolderStd(folder)
             s3_key       == folder_std \o PathName(path_to_file)
             put_call     == <<[api |-> "upload_file", Bucket |-> bucket, Key |-> s3_key]>>
         IN  IF ~PathExists(files, path_to_file)
             THEN Outcome(Raise("FileExistsError", "Cannot open file at"), <<>>, store)
             ELSE IF fault = "none"
             THEN Outcome(None, put_call,
                          s3_write(bucket, s3_key, ContentAt(files, path_to_file)))
             ELSE IF fault = "ClientError"
             THEN Outcome(Raise("RuntimeError", "could upload file to AWS S3"),
                          put_call, store)
             ELSE Outcome(Raise(fault, "upload_file"), put_call, store)

\* NamedTemporaryFile().name
Path_tmp == <<"/", "t", "m", "p", "/", "t", "m", "p", "a", "b", "1", "2">>

\* mutant of with_NamedTemporaryFile: the file deleted only when the block
\* returns
delete_unless_block_raises(existing, block) ==
    IF Raised(block) THEN existing \cup {Path_tmp} ELSE (existing \cup {Path_tmp}) \ {Path_tmp}

\* with NamedTemporaryFile() as temp_file: <block>, the temporary files on the
\* disk after the statement: the file is created on entry, and __exit__
\* closes it, which deletes it, whether the block returned or raised
with_NamedTemporaryFile(existing, block) == (existing \cup {Path_tmp}) \ {Path_tmp}

\* DataFrame({"y": [1, 2, 3], "x": ["a", "b", "c"]})
Table_yx == [kind |-> "DataFrame", decoder |-> "DataFrame", source |-> "y,x"]

\* DataFrame({"x": ["a", 1]}): a column of mixed types
Table_mixed == [kind |-> "DataFrame", decoder |-> "DataFrame", source |-> "x"]

\* data.to_csv(temp_file) and data.to_parquet(temp_file): the bytes written;
\* pyarrow refuses a column of mixed types
to_csv(data) == Bytes("csv", data)

to_parquet(data) ==
    IF data = Table_mixed
    THEN Raise("ArrowTypeError", "Expected bytes, got a 'int' object")
    ELSE Bytes("parquet", data)

put_csv_dataset_to_s3(data, filename_prefix, ref_datetime, bucket, folder, fault) ==
    LET filename == make_timestamped_filename(filename_prefix, ref_datetime, Csv)
        files    == LocalFiles \cup {LocalFile(Path_tmp, to_csv(data))}
    IN  s3_put_file_to_s3(<<Path_tmp, bucket, folder, filename>>, files, fault)

put_parquet_dataset_to_s3(data, filename_prefix, ref_datetime, bucket, folder, fault) ==
    LET filename == make_timestamped_filename(filename_prefix, ref_datetime, Parquet)
        written  == to_parquet(data)
        files    == LocalFiles \cup {LocalFile(Path_tmp, written)}
    IN  IF Raised(written) THEN Outcome(written, <<>>, store)
        ELSE s3_put_file_to_s3(<<Path_tmp, bucket, folder, filename>>, files, fault)

\* the tables a caller puts
PutTables == {Table_yx, Table_mixed}

Str_my == <<"m", "y">>

\* the first is the instant of Key_0708_csv, the second later than every key
\* of ObjectUniverse
PutRefDates == {DateTime(2020, 7, 8, 1, 0, 0, 0), DateTime(2021, 1, 1, 0, 0, 0, 500000)}

PutFaults == {"none", "ClientError"}

PutCsvDataset ==
    /\ Idle
    /\ \E ref_datetime \in PutRefDates, bucket \in UploadBuckets, folder \in Folders,
          fault \in PutFaults :
        \E outcome \in {put_csv_dataset_to_s3(Table_yx, Str_my, ref_datetime, bucket,
                                             folder, fault)} :
            /\ ret' = [op              |-> "put_csv_dataset_to_s3",
                       data            |-> Table_yx,
                       filename_prefix |-> Str_my,
                       ref_datetime    |-> ref_datetime,
                       bucket          |-> bucket,
                       folder          |-> folder,
                       fault           |-> fault,
                       value           |-> outcome.value]
            /\ calls' = outcome.calls
            /\ store' = outcome.store
            /\ temp_files' = with_NamedTemporaryFile(temp_files, outcome.value)
            /\ UNCHANGED envelope_vars

PutParquetDataset ==
    /\ Idle
    /\ \E data \in PutTables, ref_datetime \in PutRefDates, bucket \in UploadBuckets,
          folder \in Folders, fault \in PutFaults :
        \E outcome \in {put_parquet_dataset_to_s3(data, Str_my, ref_datetime, bucket,
                                                 folder, fault)} :
            /\ ret' = [op              |-> "put_parquet_dataset_to_s3",
                       data            |-> data,
                       filename_prefix |-> Str_my,
                       ref_datetime    |-> ref_datetime,
                       bucket          |-> bucket,
                       folder          |-> folder,
                       fault           |-> fault,
                       value           |-> outcome.value]
            /\ calls' = outcome.calls
            /\ store' = outcome.store
            /\ temp_files' = with_NamedTemporaryFile(temp_files, outcome.value)
            /\ UNCHANGED envelope_vars

\* what a get-latest returns or raises and the s3_client calls it issues:
\* the listing fails as list_fault says, the fetch as get_fault says; artefact
\* is what the resolver returned, computed once
get_latest_csv_dataset_from_s3(bucket, folder, list_fault, get_fault) ==
    LET listing == find_latest_calls(Csv, bucket, folder)
        fetched(artefact) ==
            IF Raised(artefact) THEN Outcome(artefact, listing, store)
            ELSE LET body  == S3TimestampedArtefact_get(artefact, get_fault)
                     fetch == <<[api |-> "get_object", Bucket |-> artefact.bucket,
                                 Key |-> artefact.obj_key]>>
                 IN  IF Raised(body) THEN Outcome(body, listing \o fetch, store)
                     ELSE Outcome(Dataset(read_csv(body), artefact.timestamp, bucket,
                                          artefact.obj_key, artefact.etag),
                                  listing \o fetch, store)
    IN  CHOOSE outcome \in
            {fetched(artefact) :
                artefact \in {find_latest_artefact_on_s3(Csv, bucket, folder,
                                                         list_fault)}} : TRUE

get_latest_parquet_dataset_from_s3(bucket, folder, list_fault, get_fault) ==
    LET listing == find_latest_calls(Parquet, bucket, folder)
        fetched(artefact) ==
            IF Raised(artefact) THEN Outcome(artefact, listing, store)
            ELSE LET body  == S3TimestampedArtefact_get(artefact, get_fault)
                     fetch == <<[api |-> "get_object", Bucket |-> artefact.bucket,
                                 Key |-> artefact.obj_key]>>
                 IN  IF Raised(body) THEN Outcome(body, listing \o fetch, store)
                     ELSE Outcome(Dataset(read_parquet(body), artefact.timestamp, bucket,
                                          artefact.obj_key, artefact.etag),
                                  listing \o fetch, store)
    IN  CHOOSE outcome \in
            {fetched(artefact) :
                artefact \in {find_latest_artefact_on_s3(Parquet, bucket, folder,
                                                         list_fault)}} : TRUE

\* how the listing and the fetch of one get-latest end: the fetch is issued
\* only after a listing that succeeded
FaultPairs ==
    {<<"none", get_fault>> : get_fault \in Faults}
    \cup {<<list_fault, "none">> : list_fault \in Faults}

GetLatestCsvDataset ==
    /\ Idle
    /\ \E bucket \in Buckets, folder \in Folders, faults \in FaultPairs :
        \E outcome \in {get_latest_csv_dataset_from_s3(bucket, folder, faults[1], faults[2])} :
            /\ ret' = [op         |-> "get_latest_csv_dataset_from_s3",
                       bucket     |-> bucket,
                       folder     |-> folder,
                       list_fault |-> faults[1],
                       get_fault  |-> faults[2],
                       value      |-> outcome.value]
            /\ calls' = outcome.calls
            /\ UNCHANGED <<store, local_vars>>

GetLatestParquetDataset ==
    /\ Idle
    /\ \E bucket \in Buckets, folder \in Folders, faults \in FaultPairs :
        \E outcome \in {get_latest_parquet_dataset_from_s3(bucket, folder, faults[1],
                                                          faults[2])} :
            /\ ret' = [op         |-> "get_latest_parquet_dataset_from_s3",
                       bucket     |-> bucket,
                       folder     |-> folder,
                       list_fault |-> faults[1],
                       get_fault  |-> faults[2],
                       value      |-> outcome.value]
            /\ calls' = outcome.calls
            /\ UNCHANGED <<store, local_vars>>

NextDataset ==
    \/ GetLatestCsvDataset
    \/ GetLatestParquetDataset
    \/ PutCsvDataset
    \/ PutParquetDataset
    \/ Return

SpecDataset == Init /\ [][NextDataset]_vars

----------------------------------------------------------------------------
(* A get-latest taken call by call, beside another writer to the bucket:    *)
(* the listing and the fetch are two requests to the store, and the store   *)
(* serves other clients between them.                                       *)

\* the get-latest in progress has its descriptor and has not fetched yet
Listed == ret.op # "init" /\ ret.pc = "listed"

\* the get-latest has returned or raised
Done == ret.op # "init" /\ ret.pc = "done"

\* artefact = _find_latest_artefact_on_s3(format, bucket, folder)
GetLatestList ==
    /\ Idle
    /\ \E file_format \in {Csv, Parquet}, bucket \in Buckets, folder \in Folders,
          list_fault \in Faults :
        \E artefact \in {find_latest_artefact_on_s3(file_format, bucket, folder,
                                                    list_fault)} :
            /\ ret' = [op          |-> "get_latest_dataset_from_s3",
                       file_format |-> file_format,
                       bucket      |-> bucket,
                       folder      |-> folder,
                       pc          |-> IF Raised(artefact) THEN "done" ELSE "listed",
                       value       |-> artefact]
            /\ calls' = find_latest_calls(file_format, bucket, folder)
            /\ UNCHANGED <<store, local_vars>>

\* data = read_csv(artefact.get()) or read_parquet(artefact.get()), and the
\* return of the Dataset
GetLatestFetch ==
    /\ Listed
    /\ \E get_fault \in Faults :
        \E body \in {S3TimestampedArtefact_get(ret.value, get_fault)} :
            /\ ret' = [ret EXCEPT
                         !.pc = "done",
                         !.value =
                            IF Raised(body) THEN body
                            ELSE Dataset(IF ret.file_format = Csv THEN read_csv(body)
                                         ELSE read_parquet(body),
                                         ret.value.timestamp, ret.bucket,
                                         ret.value.obj_key, ret.value.etag)]
            /\ calls' = calls \o <<[api |-> "get_object", Bucket |-> ret.value.bucket,
                                    Key |-> ret.value.obj_key]>>
            /\ UNCHANGED <<store, local_vars>>

\* the object another writer puts at a key that holds one
Replaced(object) ==
    Object(object.bucket, object.key, "etag-of-replacement", "bytes-of-replacement")

\* another client of the bucket replaces an object, at any moment
OtherWriterReplaces ==
    /\ \E i \in DOMAIN store :
        /\ store[i] # Replaced(store[i])
        /\ store' = [store EXCEPT ![i] = Replaced(store[i])]
    /\ UNCHANGED <<calls, ret, local_vars>>

\* the caller takes the outcome of the get-latest
GetLatestReturn ==
    /\ Done
    /\ ret' = [op |-> "init"]
    /\ calls' = <<>>
    /\ UNCHANGED <<store, local_vars>>

NextRace ==
    \/ GetLatestList
    \/ GetLatestFetch
    \/ OtherWriterReplaces
    \/ GetLatestReturn

SpecRace == Init /\ [][NextRace]_vars

----------------------------------------------------------------------------
(* models.py: the Model envelope.                                           *)

\* mutant of _compute_model_hash: the digest of the model's type
hash_of_model_type(model, md5_fault) ==
    LET model_bytestream == pickle_dumps(model)
    IN  IF Raised(model_bytestream)
        THEN IF model_bytestream.exc = "PicklingError"
             THEN Raise("RuntimeError", "Could not pickle model into bytes before hashing.")
             ELSE Raise("RuntimeError", "Could not hash model.")
        ELSE IF md5_fault # "none" THEN Raise("RuntimeError", "Could not hash model.")
        ELSE md5(Bytes("pickle5", Str(model.kind)))

\* mutant of _compute_model_hash: one message for every failure
hash_one_message(model, md5_fault) ==
    LET model_bytestream == pickle_dumps(model)
    IN  IF Raised(model_bytestream) \/ md5_fault # "none"
        THEN Raise("RuntimeError", "Could not hash model.")
        ELSE md5(model_bytestream)

\* Model._compute_model_hash(model); md5_fault is how hashlib.md5 ends
_compute_model_hash(model, md5_fault) ==
    LET model_bytestream == pickle_dumps(model)
    IN  IF Raised(model_bytestream)
        THEN IF model_bytestream.exc = "PicklingError"
             THEN Raise("RuntimeError", "Could not pickle model into bytes before hashing.")
             ELSE Raise("RuntimeError", "Could not hash model.")
        ELSE IF md5_fault # "none" THEN Raise("RuntimeError", "Could not hash model.")
        ELSE md5(model_bytestream)

\* environ.get("GIT_COMMIT_HASH", "NA")
environ_get(env) == IF env.kind = "None" THEN "NA" ELSE env.value

\* Model.__init__ run when datetime.now() is now and os.environ holds env:
\* the envelope, or the exception of _compute_model_hash
Model(name, model, train_dataset, metadata, now, env, md5_fault) ==
    LET model_hash == _compute_model_hash(model, md5_fault)
    IN  IF Raised(model_hash) THEN model_hash
        ELSE [kind                      |-> "Model",
              _name                     |-> name,
              _train_dataset_key        |-> train_dataset.key,
              _train_dataset_hash       |-> train_dataset.hash,
              _model_hash               |-> model_hash,
              _model                    |-> model,
              _model_type               |-> model.kind,
              _creation_time            |-> now,
              _pipeline_git_commit_hash |-> environ_get(env),
              _metadata                 |-> metadata]

\* mutant of Model__eq__: the model hash compared as well
eq_with_model_hash(self, other) ==
    IF other.kind = "Model"
    THEN /\ self._train_dataset_hash = other._train_dataset_hash
         /\ self._train_dataset_key = other._train_dataset_key
         /\ self._creation_time = other._creation_time
         /\ self._pipeline_git_commit_hash = other._pipeline_git_commit_hash
         /\ self._model_hash = other._model_hash
    ELSE FALSE

\* Model.__eq__
Model__eq__(self, other) ==
    IF other.kind = "Model"
    THEN /\ self._train_dataset_hash = other._train_dataset_hash
         /\ self._train_dataset_key = other._train_dataset_key
         /\ self._creation_time = other._creation_time
         /\ self._pipeline_git_commit_hash = other._pipeline_git_commit_hash
    ELSE FALSE

\* Model.__repr__ and Model.__str__: the lines of the rendering
Model__str__(self) ==
    <<[label |-> "name",                     value |-> Str(self._name)],
      [label |-> "model_type",               value |-> Str(self._model_type)],
      [label |-> "model_timestamp",          value |-> self._creation_time],
      [label |-> "model_hash",               value |-> self._model_hash],
      [label |-> "train_dataset_key",        value |-> Str(self._train_dataset_key)],
      [label |-> "train_dataset_hash",       value |-> Str(self._train_dataset_hash)],
      [label |-> "pipeline_git_commit_hash", value |-> Str(self._pipeline_git_commit_hash)]>>

\* the properties Model.metadata and Model.model
Model_metadata(self) == self._metadata

Model_model(self) == self._model

\* whether the pickle of an envelope wrapping this model is shorter than the
\* buffer of the temporary file's writer
SmallPickle(model) == model.kind # "RandomForestRegressor"

\* what the temporary file holds on disk when put_file_to_s3 opens it by name:
\* dump wrote through a buffered writer that nothing has flushed, so a short
\* pickle is still in the buffer and of a long one the tail may be
OnDisk(self) ==
    IF SmallPickle(self._model) THEN {Bytes("empty", None)}
    ELSE {pickle_dumps(self), Bytes("pickle5-truncated", self)}

\* Model.put_model_to_s3: the outcome, with the returned location as the
\* bucket and the path that follows the first "/"
put_model_to_s3(self, bucket, folder, on_disk, fault) ==
    LET filename == make_timestamped_filename(self._name, self._creation_time, Pkl)
        files    == LocalFiles \cup {LocalFile(Path_tmp, on_disk)}
        put      == put_file_to_s3(Path_tmp, bucket, folder, Str(filename), files, fault)
    IN  IF Raised(put.value) THEN put
        ELSE Outcome([kind   |-> "location",
                      bucket |-> bucket,
                      path   |-> folder \o <<"/">> \o filename],
                     put.calls, put.store)

\* pickle.loads(bytes): no bytes at all end the stream (EOFError), bytes cut
\* short or not written by pickle raise UnpicklingError, and a pickle naming a
\* class the reader cannot look up raises AttributeError
pickle_loads(bytes) ==
    IF bytes.encoding = "empty" THEN Raise("EOFError", "Ran out of input")
    ELSE IF bytes.encoding # "pickle5"
    THEN Raise("UnpicklingError", "pickle data was truncated")
    ELSE IF bytes.of.kind = "instance"
    THEN Raise("AttributeError", "Can't get attribute")
    ELSE bytes.of

\* get_latest_pkl_model_from_s3: the resolver's failure and the fetch's leave
\* as they are; of the failures of loads, UnpicklingError and AttributeError
\* are handled; cast() checks nothing, so what loads returns is returned
get_latest_pkl_model_from_s3(bucket, folder, list_fault, get_fault) ==
    LET listing == find_latest_calls(Pkl, bucket, folder)
        fetched(artefact) ==
            IF Raised(artefact) THEN Outcome(artefact, listing, store)
            ELSE LET body  == S3TimestampedArtefact_get(artefact, get_fault)
                     fetch == <<[api |-> "get_object", Bucket |-> artefact.bucket,
                                 Key |-> artefact.obj_key]>>
                     model == pickle_loads(body.bytes)
                 IN  IF Raised(body) THEN Outcome(body, listing \o fetch, store)
                     ELSE IF ~Raised(model) THEN Outcome(model, listing \o fetch, store)
                     ELSE IF model.exc = "UnpicklingError"
                     THEN Outcome(Raise("RuntimeError", "could not be unpickled."),
                                  listing \o fetch, store)
                     ELSE IF model.exc = "AttributeError"
                     THEN Outcome(Raise("RuntimeError", "is not type Model."),
                                  listing \o fetch, store)
                     ELSE Outcome(model, listing \o fetch, store)
    IN  CHOOSE outcome \in
            {fetched(artefact) :
                artefact \in {find_latest_artefact_on_s3(Pkl, bucket, folder,
                                                         list_fault)}} : TRUE

----------------------------------------------------------------------------
(* Envelopes built, compared, rendered and persisted; dataset puts.         *)

MaxModels == 2

Str_model == <<"m", "o", "d", "e", "l">>

Str_model2 == <<"m", "o", "d", "e", "l", "2">>

\* an unfitted DecisionTreeRegressor(), one with random_state=42, and a fitted
\* forest whose pickle is longer than the writer's buffer
Regressor == [kind |-> "DecisionTreeRegressor", items |-> <<0>>]

Regressor42 == [kind |-> "DecisionTreeRegressor", items |-> <<42>>]

Forest == [kind |-> "RandomForestRegressor", items |-> <<0>>]

\* the wrapped models a caller constructs an envelope with
WrappedModels == {Regressor, Forest, PyLambda, PyLock}

Key_the_data == <<"d", "/", "t", "h", "e", "-", "d", "a", "t", "a", ".", "c", "s", "v">>

TrainDataset == Dataset(Table_yx, DateTime(2021, 1, 1, 0, 0, 0, 0), "my-bucket",
                        Key_the_data, "the-aws-s3-hash-value")

\* the dataset with another hash, another key, another bucket
TrainDatasets ==
    {TrainDataset,
     Dataset(Table_yx, DateTime(2021, 1, 1, 0, 0, 0, 0), "my-bucket",
             Key_the_data, "new-aws-s3-hash-value"),
     Dataset(Table_yx, DateTime(2021, 1, 1, 0, 0, 0, 0), "my-bucket",
             Key_0608_csv, "the-aws-s3-hash-value"),
     Dataset(Table_yx, DateTime(2021, 1, 1, 0, 0, 0, 0), "other-bucket",
             Key_the_data, "the-aws-s3-hash-value")}

MetaDict == [kind |-> "dict", items |-> <<"foo", "bar">>]

\* the instants datetime.now() returns, in order: both in one second
Instants ==
    <<DateTime(2021, 1, 1, 0, 0, 0, 0), DateTime(2021, 1, 1, 0, 0, 0, 500000)>>

\* an instant of another second
Instant_other == DateTime(2021, 1, 1, 0, 0, 1, 0)

Environs == {None, Str("abc123")}

Md5Faults == {"none", "ValueError"}

\* envelopes built elsewhere (another run, another revision), and values that
\* are not envelopes: what a caller may compare an envelope with
OtherValues ==
    {Model(name, model, train_dataset, IF name = Str_model THEN MetaDict ELSE None,
           now, env, "none") :
        name \in {Str_model, Str_model2}, model \in {Regressor, Regressor42},
        train_dataset \in TrainDatasets, now \in {Instants[1], Instant_other},
        env \in Environs}
    \cup {None, PyList, TrainDataset}

InitModel ==
    /\ store = <<>>
    /\ calls = <<>>
    /\ ret = [op |-> "init"]
    /\ models = {}
    /\ clock = Instants[1]
    /\ environ \in Environs
    /\ temp_files = {}

\* time passes
Tick ==
    /\ Idle
    /\ \E i \in 1..(Len(Instants) - 1) :
        /\ clock = Instants[i]
        /\ clock' = Instants[i + 1]
    /\ UNCHANGED <<store, calls, ret, models, environ, temp_files>>

ConstructModel ==
    /\ Idle
    /\ Cardinality(models) < MaxModels
    /\ \E model \in WrappedModels, md5_fault \in Md5Faults :
        \E value \in {Model(Str_model, model, TrainDataset, MetaDict, clock, environ,
                            md5_fault)} :
            /\ ret' = [op            |-> "Model",
                       name          |-> Str_model,
                       model         |-> model,
                       train_dataset |-> TrainDataset,
                       metadata      |-> MetaDict,
                       md5_fault     |-> md5_fault,
                       value         |-> value]
            /\ models' = IF Raised(value) THEN models ELSE models \cup {value}
            /\ UNCHANGED <<store, calls, clock, environ, temp_files>>

ModelEq ==
    /\ Idle
    /\ \E self \in models, other \in models \cup OtherValues :
        /\ ret' = [op    |-> "Model.__eq__",
                   self  |-> self,
                   other |-> other,
                   value |-> Model__eq__(self, other)]
        /\ UNCHANGED <<store, calls, local_vars>>

ModelStr ==
    /\ Idle
    /\ \E self \in models :
        /\ ret' = [op |-> "Model.__str__", self |-> self, value |-> Model__str__(self)]
        /\ UNCHANGED <<store, calls, local_vars>>

ModelRead ==
    /\ Idle
    /\ \E self \in models :
        /\ ret' = [op       |-> "Model.model",
                   self     |-> self,
                   value    |-> Model_model(self),
                   metadata |-> Model_metadata(self)]
        /\ UNCHANGED <<store, calls, local_vars>>

PutModelToS3 ==
    /\ Idle
    /\ \E self \in models, bucket \in UploadBuckets, folder \in Folders,
          fault \in UploadFaults :
        \E on_disk \in OnDisk(self) :
            \E outcome \in {put_model_to_s3(self, bucket, folder, on_disk, fault)} :
                /\ ret' = [op      |-> "Model.put_model_to_s3",
                           self    |-> self,
                           bucket  |-> bucket,
                           folder  |-> folder,
                           fault   |-> fault,
                           value   |-> outcome.value]
                /\ calls' = outcome.calls
                /\ store' = outcome.store
                /\ temp_files' = with_NamedTemporaryFile(temp_files, outcome.value)
                /\ UNCHANGED envelope_vars

NextModel ==
    \/ Tick
    \/ ConstructModel
    \/ ModelEq
    \/ ModelStr
    \/ ModelRead
    \/ PutModelToS3
    \/ PutCsvDataset
    \/ PutParquetDataset
    \/ Return

SpecModel == InitModel /\ [][NextModel]_vars

----------------------------------------------------------------------------
(* Pickled objects and persisted envelopes in one bucket, and the envelope  *)
(* read back with get_latest_pkl_model_from_s3.                             *)

\* an instance of a class defined in the writer's script, a module the reader
\* of the pickle does not have
PyInstance == [kind |-> "instance", items |-> <<>>]

Key_their_pkl ==
    <<"d", "/", "t", "h", "e", "i", "r", "_", "2", "0", "2", "0", "-", "1", "2", "-",
      "3", "1", ".", "p", "k", "l">>

\* the bucket before the first call: empty, or holding a pickle that another
\* program wrote, older than every envelope
PickleStores ==
    {<<>>,
     <<Object("my-bucket", Key_their_pkl, md5(pickle_dumps(PyInstance)),
              pickle_dumps(PyInstance))>>}

InitPickle ==
    /\ store \in PickleStores
    /\ calls = <<>>
    /\ ret = [op |-> "init"]
    /\ models = {}
    /\ clock = Instants[1]
    /\ environ \in Environs
    /\ temp_files = {}

GetLatestPklModel ==
    /\ Idle
    /\ \E bucket \in UploadBuckets, folder \in Folders, faults \in FaultPairs :
        \E outcome \in {get_latest_pkl_model_from_s3(bucket, folder, faults[1],
                                                    faults[2])} :
            /\ ret' = [op         |-> "get_latest_pkl_model_from_s3",
                       bucket     |-> bucket,
                       folder     |-> folder,
                       list_fault |-> faults[1],
                       get_fault  |-> faults[2],
                       value      |-> outcome.value]
            /\ calls' = outcome.calls
            /\ UNCHANGED <<store, local_vars>>

NextPickle ==
    \/ ConstructModel
    \/ PutModelToS3
    \/ PutObjectToS3
    \/ GetLatestPklModel
    \/ Return

SpecPickle == InitPickle /\ [][NextPickle]_vars

----------------------------------------------------------------------------
(* Claims about the resolver and the descriptor's get, checked under Spec.  *)

SupportedTags == {Csv, Parquet, Pkl}

LogicalFormat(tag) ==
    IF tag = Csv THEN "CSV" ELSE IF tag = Parquet THEN "PARQUET" ELSE "PICKLE"

\* the descriptors of the stored objects that a listing of (bucket, folder
\* normalised) returns and that are valid and of the format named by tag
ValidListed(bucket, folder, tag) ==
    LET prefix == IF folder = <<>> \/ folder[Len(folder)] = "/"
                  THEN folder ELSE folder \o <<"/">>
        listed == {i \in DOMAIN store :
                      store[i].bucket = bucket /\ StartsWith(store[i].key, prefix)}
        built  == {S3TimestampedArtefact(bucket, store[i].key, store[i].etag) :
                      i \in listed}
    IN  {a \in built : IsArtefact(a) /\ a.file_format = LogicalFormat(tag)}

InvalidListed(bucket, folder) ==
    LET prefix == IF folder = <<>> \/ folder[Len(folder)] = "/"
                  THEN folder ELSE folder \o <<"/">>
    IN  {i \in DOMAIN store :
            /\ store[i].bucket = bucket
            /\ StartsWith(store[i].key, prefix)
            /\ ~IsArtefact(S3TimestampedArtefact(bucket, store[i].key, store[i].etag))}

FindReturned ==
    /\ ret.op = "find_latest_artefact_on_s3"
    /\ ret.file_format \in SupportedTags

\* C1: from a listing that mixes valid keys with invalid ones and with keys of
\* another format, the resolver returns a descriptor of the listing that has
\* the requested format and the greatest timestamp among the listed keys that
\* are valid and of that format; the other keys neither make it raise nor are
\* returned.
C1_LatestOfValidListed ==
    (/\ FindReturned
     /\ ret.fault = "none"
     /\ ValidListed(ret.bucket, ret.folder, ret.file_format) # {})
    => /\ ret.value \in ValidListed(ret.bucket, ret.folder, ret.file_format)
       /\ ret.value.file_format = LogicalFormat(ret.file_format)
       /\ \A a \in ValidListed(ret.bucket, ret.folder, ret.file_format) :
              ~DateTimeLess(ret.value.timestamp, a.timestamp)

C1_Witness ==
    /\ FindReturned
    /\ ret.fault = "none"
    /\ ret.file_format = Csv
    /\ ret.folder = Str_d
    /\ store = <<Object("my-bucket", Key_0708_csv, "etag2", "bytes2"),
                 Object("my-bucket", Key_1308_csv, "etag6", "bytes6"),
                 Object("my-bucket", Key_0608_csv, "etag1", "bytes1")>>
    /\ InvalidListed(ret.bucket, ret.folder) # {}
    /\ IsArtefact(ret.value)
    /\ ret.value.obj_key = Key_0708_csv
    /\ ret.value.etag = "etag2"

\* C2: the resolver fails with the not-found error ('no valid artefacts
\* found') whenever the listing holds no valid entry of the requested format,
\* a prefix that holds no object included, and with the backend error ('failed
\* to download dataset') whenever the listing call fails; never one for the
\* other, and no value is returned in either case.
C2_NotFoundDistinctFromBackendFailure ==
    FindReturned
    => LET folder_std == FolderStd(ret.folder)
       IN  /\ ret.fault # "none"
                => /\ Raised(ret.value)
                   /\ ret.value.exc = "RuntimeError"
                   /\ ret.value.msg = "failed to download dataset from s3://"
           /\ (/\ ret.fault = "none"
               /\ ValidListed(ret.bucket, ret.folder, ret.file_format) = {})
                => /\ Raised(ret.value)
                   /\ ret.value.exc = "RuntimeError"
                   /\ ret.value.msg = "no valid artefacts found in s3://"
                   /\ ret.value.bucket = ret.bucket
                   /\ ret.value.path = folder_std

\* C3: a format tag other than csv, parquet and pkl makes the resolver fail
\* with the 'is not a supported file type' error before any listing call, for
\* every bucket and folder; no call reaches the store.
C3_UnsupportedFormatBeforeListing ==
    (/\ ret.op = "find_latest_artefact_on_s3"
     /\ ret.file_format \notin SupportedTags)
    => /\ ret.value = Raise("ValueError", "is not a supported file type.")
       /\ calls = <<>>

C3_Witness ==
    /\ ret.op = "find_latest_artefact_on_s3"
    /\ ret.file_format = <<"C", "S", "V">>
    /\ ret.bucket = "my-bucket"
    /\ ret.folder = Str_d
    /\ Len(store) = MaxObjects
    /\ ret.value = Raise("ValueError", "is not a supported file type.")
    /\ calls = <<>>

\* C10: get issues one fetch, for its own (bucket, key); when the fetch fails
\* in any way it fails with 'cannot get artefact from s3://bucket/key' and
\* the cause, and otherwise it returns the bytes stored at that key.
C10_GetFetchesOwnObject ==
    ret.op = "S3TimestampedArtefact.get"
    => LET at == StoredAt(ret.self.bucket, ret.self.obj_key)
       IN  /\ calls = <<[api |-> "get_object", Bucket |-> ret.self.bucket,
                         Key |-> ret.self.obj_key]>>
           /\ (ret.fault # "none" \/ at = {})
                => /\ Raised(ret.value)
                   /\ ret.value.exc = "RuntimeError"
                   /\ ret.value.msg = "cannot get artefact from s3://"
                   /\ ret.value.bucket = ret.self.bucket
                   /\ ret.value.path = ret.self.obj_key
           /\ (ret.fault = "none" /\ at # {})
                => /\ ret.value.kind = "StreamingBody"
                   /\ \E i \in at : ret.value.bytes = store[i].body

----------------------------------------------------------------------------
(* Claims about the codec and the descriptor, checked under SpecCodec.      *)

NoDateIn(s) == \A i \in 1..Len(s) : ~DatePatternAt(s, i)

Decimal(n, k) == DigitChars[((n \div k) % 10) + 1]

\* YYYY-MM-DDTHH:MM:SS, digit by digit
ExpectedIsoSeconds(t) ==
    <<Decimal(t.year, 1000), Decimal(t.year, 100), Decimal(t.year, 10),
      Decimal(t.year, 1), "-", Decimal(t.month, 10), Decimal(t.month, 1), "-",
      Decimal(t.day, 10), Decimal(t.day, 1), "T", Decimal(t.hour, 10),
      Decimal(t.hour, 1), ":", Decimal(t.minute, 10), Decimal(t.minute, 1), ":",
      Decimal(t.second, 10), Decimal(t.second, 1)>>

Str_training_data_example ==
    Str_training_data
        \o <<"_", "2", "0", "2", "1", "-", "0", "7", "-", "1", "2", "T", "1", "3",
             ":", "0", "0", ":", "0", "0", ".", "c", "s", "v">>

\* C4 as stated: for every prefix, every supported format and every timestamp
\* of second precision, the format decoded from the encoded filename is the
\* logical format and the timestamp decoded from it is the timestamp.
C4_RoundTripEveryPrefix ==
    (/\ ret.op = "make_timestamped_filename"
     /\ ret.file_format \in DOMAIN FILE_FORMAT_EXTENSIONS
     /\ ret.ref_date.microsecond = 0)
    => /\ _extract_file_format_from_string(ret.value)
            = [kind |-> "str", value |-> FILE_FORMAT_EXTENSIONS[ret.file_format]]
       /\ _extract_iso_timestamp_from_string(ret.value) = ret.ref_date

\* C4 amended: the round trip holds for every prefix that holds no substring
\* matching the date pattern \d{4}\W\d{2}\W\d{2}; the decode reads the
\* leftmost date-like substring, which is otherwise the one in the prefix.
C4_RoundTripUndatedPrefix ==
    (/\ ret.op = "make_timestamped_filename"
     /\ ret.file_format \in DOMAIN FILE_FORMAT_EXTENSIONS
     /\ ret.ref_date.microsecond = 0
     /\ NoDateIn(ret.prefix))
    => /\ _extract_file_format_from_string(ret.value)
            = [kind |-> "str", value |-> FILE_FORMAT_EXTENSIONS[ret.file_format]]
       /\ _extract_iso_timestamp_from_string(ret.value) = ret.ref_date

C4_Witness ==
    /\ ret.op = "make_timestamped_filename"
    /\ ret.file_format = Parquet
    /\ ret.ref_date = DateTime(999, 12, 7, 13, 33, 13, 0)
    /\ ret.prefix = <<"m", "1", "2">>
    /\ _extract_iso_timestamp_from_string(ret.value) = ret.ref_date

\* C5: make_timestamped_filename returns prefix, '_', the timestamp as
\* YYYY-MM-DDTHH:MM:SS, '.', and the format; sub-second digits change nothing;
\* ('training_data', 2021-07-12T13:00:00, 'csv') gives
\* 'training_data_2021-07-12T13:00:00.csv'.
C5_FilenameLayout ==
    ret.op = "make_timestamped_filename"
    => /\ ret.value = ret.prefix \o <<"_">> \o ExpectedIsoSeconds(ret.ref_date)
                        \o <<".">> \o ret.file_format
       /\ ret.value = make_timestamped_filename(
                        ret.prefix, [ret.ref_date EXCEPT !.microsecond = 0],
                        ret.file_format)
       /\ (/\ ret.prefix = Str_training_data
           /\ [ret.ref_date EXCEPT !.microsecond = 0] = DateTime(2021, 7, 12, 13, 0, 0, 0)
           /\ ret.file_format = Csv)
          => ret.value = Str_training_data_example

C5_Witness ==
    /\ ret.op = "make_timestamped_filename"
    /\ ret.prefix = Str_training_data
    /\ ret.ref_date = DateTime(2021, 7, 12, 13, 0, 0, 500000)
    /\ ret.file_format = Csv
    /\ ret.value = Str_training_data_example

\* what C6 says the timestamp decode returns for s
ClaimedTimestamp(s) ==
    LET m == FirstTimestampMatch(s)
    IN  IF m = <<>> THEN None
        ELSE DateTime(ParseInt(SubSeq(m, 1, 4)), ParseInt(SubSeq(m, 6, 7)),
                      ParseInt(SubSeq(m, 9, 10)),
                      IF Len(m) = 19 THEN ParseInt(SubSeq(m, 12, 13)) ELSE 0,
                      IF Len(m) = 19 THEN ParseInt(SubSeq(m, 15, 16)) ELSE 0,
                      IF Len(m) = 19 THEN ParseInt(SubSeq(m, 18, 19)) ELSE 0,
                      0)

\* C6: the timestamp decode returns the timestamp of the leftmost substring
\* matching the date-time or bare-date pattern, a bare date as midnight, and
\* no-timestamp exactly when no substring matches.
C6_TimestampOfLeftmostMatch ==
    ret.op = "_extract_iso_timestamp_from_string"
    => /\ ret.value = ClaimedTimestamp(ret.s)
       /\ (ret.value = None) <=> NoDateIn(ret.s)

\* what C7 says the format decode returns for s
ClaimedFormat(s) ==
    LET dots == {i \in 1..Len(s) : s[i] = "."}
    IN  IF dots = {} THEN None
        ELSE LET i   == CHOOSE j \in dots : \A k \in dots : k <= j
                 ext == Lower(SubSeq(s, i + 1, Len(s)))
             IN  IF ext = Csv THEN [kind |-> "str", value |-> "CSV"]
                 ELSE IF ext = Parquet THEN [kind |-> "str", value |-> "PARQUET"]
                 ELSE IF ext = Pkl THEN [kind |-> "str", value |-> "PICKLE"]
                 ELSE None

\* C7: the format decode lower-cases the substring after the last '.' and maps
\* csv, parquet and pkl to CSV, PARQUET and PICKLE; it returns no-format when
\* there is no '.' or that substring is none of the three, for every key.
C7_FormatOfSubstringAfterLastDot ==
    ret.op = "_extract_file_format_from_string"
    => ret.value = ClaimedFormat(ret.s)

\* C8: construction succeeds exactly when the key yields a timestamp and a
\* supported format, and then holds both; otherwise it fails with 'no parsable
\* timestamp' when the timestamp decode fails and with 'no supported file
\* format' only when the timestamp decoded and the format did not.
C8_ConstructionOutcome ==
    ret.op = "S3TimestampedArtefact"
    => LET ts == _extract_iso_timestamp_from_string(ret.s3_obj_key)
           ff == _extract_file_format_from_string(ret.s3_obj_key)
       IN  /\ IsArtefact(ret.value) <=> (ts.kind = "datetime" /\ ff.kind = "str")
           /\ IsArtefact(ret.value)
                => /\ ret.value.timestamp = ts
                   /\ ret.value.file_format = ff.value
                   /\ ret.value.bucket = ret.bucket
                   /\ ret.value.obj_key = ret.s3_obj_key
                   /\ ret.value.etag = ret.s3_etag
           /\ ts.kind # "datetime"
                => ret.value = Raise("ValueError", "has no parsable timestamp.")
           /\ (ts.kind = "datetime" /\ ff.kind # "str")
                => ret.value = Raise("ValueError", "has no supported file format.")

\* C9: 'less than' on descriptors depends on the timestamps only: of two
\* descriptors with distinct timestamps exactly one is less than the other,
\* two with equal timestamps are not less than each other whatever their keys,
\* buckets and entity tags, and the relation is transitive.
C9_LessThanByTimestamp ==
    ret.op = "__lt__"
    => /\ ret.a.timestamp # ret.b.timestamp => (ret.ab <=> ~ret.ba)
       /\ ret.a.timestamp = ret.b.timestamp => (~ret.ab /\ ~ret.ba)
       /\ (ret.ab /\ ret.bc) => ret.ac

C9_Witness ==
    /\ ret.op = "__lt__"
    /\ ret.a.timestamp = ret.b.timestamp
    /\ ret.a.obj_key # ret.b.obj_key
    /\ ret.a.bucket # ret.b.bucket
    /\ ~ret.ab /\ ~ret.ba
    /\ ret.c.timestamp # ret.a.timestamp
    /\ ret.ac /\ ret.bc

----------------------------------------------------------------------------
(* Claims about the store calls' failures, checked under SpecUpload.        *)

\* the exception classes of botocore and boto3
BackendErrors == {"ClientError", "EndpointConnectionError", "S3UploadFailedError"}

\* C11: when a store call (list_objects, get_object, put_object, upload_file)
\* fails, whatever the failure, the operation that issued it raises one of the
\* library's own errors and never the backend's exception.
C11_StoreFailureTranslated ==
    (ret.op # "init" /\ calls # <<>> /\ ret.fault # "none")
    => /\ Raised(ret.value)
       /\ ret.value.exc \notin BackendErrors
       /\ ret.value.exc = "RuntimeError"

----------------------------------------------------------------------------
(* Claims about the dataset get-latest functions, checked under SpecDataset.*)

GetLatestReturned ==
    ret.op \in {"get_latest_csv_dataset_from_s3", "get_latest_parquet_dataset_from_s3"}

RequestedTag ==
    IF ret.op = "get_latest_csv_dataset_from_s3" THEN Csv ELSE Parquet

\* the bytes the store holds at (bucket, key)
StoredBytes(bucket, key) ==
    {store[i].body : i \in {j \in DOMAIN store :
                               store[j].bucket = bucket /\ store[j].key = key}}

\* C12: a get-latest of csv or parquet returns a Dataset whose timestamp, key
\* and hash are those of the artefact the resolver selects for that format,
\* whose bucket is the requested one and whose table is decoded, by the
\* format's decoder, from the bytes stored at that key; when the resolver or
\* the fetch fails the failure leaves the function and no Dataset is returned.
C12_DatasetOfLatestArtefact ==
    GetLatestReturned
    => LET latest == find_latest_artefact_on_s3(RequestedTag, ret.bucket, ret.folder,
                                                ret.list_fault)
       IN  /\ Raised(latest) => ret.value = latest
           /\ (~Raised(latest) /\ ret.get_fault # "none") => Raised(ret.value)
           /\ (~Raised(latest) /\ ret.get_fault = "none")
                => /\ ret.value.kind = "Dataset"
                   /\ ret.value.datetime = latest.timestamp
                   /\ ret.value.key = latest.obj_key
                   /\ ret.value.hash = latest.etag
                   /\ ret.value.bucket = ret.bucket
                   /\ ret.value.data.kind = "DataFrame"
                   /\ ret.value.data.decoder
                        = (IF RequestedTag = Csv THEN "read_csv" ELSE "read_parquet")
                   /\ StoredBytes(ret.bucket, ret.value.key) = {ret.value.data.source}
                   /\ calls[Len(calls)]
                        = [api |-> "get_object", Bucket |-> ret.bucket,
                           Key |-> ret.value.key]

\* a Dataset returned from a folder that holds an older artefact of the format
\* and an artefact of the other format
C12_Witness ==
    /\ GetLatestReturned
    /\ ret.value.kind = "Dataset"
    /\ Cardinality(ValidListed(ret.bucket, ret.folder, RequestedTag)) >= 2
    /\ \E a \in ValidListed(ret.bucket, ret.folder, RequestedTag) :
          DateTimeLess(a.timestamp, ret.value.datetime)
    /\ ValidListed(ret.bucket, ret.folder, IF RequestedTag = Csv THEN Parquet ELSE Csv) # {}

\* a dataset put that the store would accept
DatasetPutReturned ==
    /\ ret.op \in {"put_csv_dataset_to_s3", "put_parquet_dataset_to_s3"}
    /\ ret.fault = "none"

PutTag == IF ret.op = "put_csv_dataset_to_s3" THEN Csv ELSE Parquet

\* normalised folder + make_timestamped_filename(prefix, reference timestamp, format)
PutKey ==
    (IF ret.folder = <<>> \/ ret.folder[Len(ret.folder)] = "/"
     THEN ret.folder ELSE ret.folder \o <<"/">>)
    \o make_timestamped_filename(ret.filename_prefix, ret.ref_datetime, PutTag)

\* C13: a dataset put of csv or parquet that the store accepts completes
\* without error, having issued one upload to the given bucket under the key
\* normalised folder + make_timestamped_filename(prefix, reference timestamp,
\* format), which is not the temporary file's name, and the store then holds
\* an object at that key.
C13_DatasetPutUploadsUnderCodecKey ==
    DatasetPutReturned
    => /\ ret.value = None
       /\ calls = <<[api |-> "upload_file", Bucket |-> ret.bucket, Key |-> PutKey]>>
       /\ PutKey # FolderStd(ret.folder) \o PathName(Path_tmp)
       /\ StoredAt(ret.bucket, PutKey) # {}

\* C15: after a dataset put of table T with prefix p, reference timestamp ts
\* and format f into (bucket, folder), a get-latest of f on that bucket and
\* folder returns a Dataset whose table is T as encoded and decoded by f,
\* whose timestamp is ts, whose bucket is the one supplied and whose key is the
\* key the put wrote.
C15_DatasetRoundTrip ==
    DatasetPutReturned
    => LET got == IF PutTag = Csv
                  THEN get_latest_csv_dataset_from_s3(ret.bucket, ret.folder,
                                                      "none", "none").value
                  ELSE get_latest_parquet_dataset_from_s3(ret.bucket, ret.folder,
                                                          "none", "none").value
       IN  /\ ~Raised(ret.value)
           /\ got.kind = "Dataset"
           /\ got.data.source = (IF PutTag = Csv THEN to_csv(ret.data)
                                 ELSE to_parquet(ret.data))
           /\ got.datetime = ret.ref_datetime
           /\ got.bucket = ret.bucket
           /\ got.key = PutKey

----------------------------------------------------------------------------
(* Claims about the puts and the Model envelope, checked under SpecModel.   *)

PutOps == {"put_csv_dataset_to_s3", "put_parquet_dataset_to_s3", "Model.put_model_to_s3"}

\* C14: in any sequence of dataset puts and envelope puts into a bucket that
\* starts empty, a put that writes an object writes it at a key that holds no
\* object yet: no two puts write the same key and nothing is overwritten.
C14_PutsWriteDistinctKeys ==
    [][\A i \in DOMAIN calls' :
          (ret'.op \in PutOps /\ ~Raised(ret'.value) /\ calls'[i].api = "upload_file")
          => StoredAt(calls'[i].Bucket, calls'[i].Key) = {}]_vars

EqReturned == ret.op = "Model.__eq__"

\* the four fields the claim names
IdentityFields(envelope) ==
    <<envelope._train_dataset_hash, envelope._train_dataset_key,
      envelope._creation_time, envelope._pipeline_git_commit_hash>>

\* C16: an envelope equals another value if and only if that value is an
\* envelope with the same training-dataset hash, training-dataset key,
\* creation time and revision identifier; names, wrapped models, model hashes
\* and metadata play no part, and a value that is not an envelope is unequal.
C16_EqualIffIdentityFieldsMatch ==
    EqReturned
    => (ret.value <=> (/\ ret.other.kind = "Model"
                       /\ IdentityFields(ret.self) = IdentityFields(ret.other)))

\* equal envelopes that differ in name, wrapped model, model hash and metadata
C16_Witness ==
    /\ EqReturned
    /\ ret.value
    /\ ret.self._name # ret.other._name
    /\ ret.self._model # ret.other._model
    /\ ret.self._model_hash # ret.other._model_hash
    /\ ret.self._metadata # ret.other._metadata

\* C17: the model hash of every envelope is the md5 digest of the pickle of the
\* model it was constructed with, and no step (equality, rendering, persist,
\* reading the model or the metadata, a later construction) changes an
\* envelope that exists.
C17_HashFixedAtConstruction ==
    /\ [](\A envelope \in models :
             envelope._model_hash = md5(pickle_dumps(envelope._model)))
    /\ [][models \subseteq models']_vars

\* an envelope persisted after it was compared, still with the digest of its model
C17_Witness ==
    /\ ret.op = "Model.put_model_to_s3"
    /\ ~Raised(ret.value)
    /\ ret.self \in models
    /\ ret.self._model_hash = md5(pickle_dumps(ret.self._model))
    /\ Cardinality(models) = MaxModels

ConstructReturned == ret.op = "Model"

\* C18: construction raises 'Could not pickle model ...' exactly when pickling
\* the model raises PicklingError, raises 'Could not hash model.' when pickling
\* fails otherwise or hashing fails, and produces an envelope only when neither
\* fails.
C18_ConstructionFailures ==
    ConstructReturned
    => LET pickled  == pickle_dumps(ret.model)
           pickling == Raised(pickled) /\ pickled.exc = "PicklingError"
           other    == \/ Raised(pickled) /\ pickled.exc # "PicklingError"
                       \/ ~Raised(pickled) /\ ret.md5_fault # "none"
       IN  /\ pickling
                <=> ret.value = Raise("RuntimeError",
                                      "Could not pickle model into bytes before hashing.")
           /\ other => ret.value = Raise("RuntimeError", "Could not hash model.")
           /\ (pickling \/ other) <=> ret.value.kind # "Model"
           /\ Raised(pickled) => \A envelope \in models : envelope._model # ret.model

\* a construction that failed in pickling while an envelope already exists
C18_Witness ==
    /\ ConstructReturned
    /\ ret.value = Raise("RuntimeError", "Could not pickle model into bytes before hashing.")
    /\ models # {}

\* C19: a constructed envelope holds the clock's time at construction as its
\* creation time, the environment's revision identifier or 'NA' when there is
\* none, and the training dataset's key, hash and bucket: an envelope built
\* from a dataset in another bucket is a different envelope.
C19_EnvelopeFields ==
    (ConstructReturned /\ ret.value.kind = "Model")
    => /\ ret.value._creation_time = clock
       /\ ret.value._pipeline_git_commit_hash
            = (IF environ = None THEN "NA" ELSE environ.value)
       /\ ret.value._train_dataset_key = ret.train_dataset.key
       /\ ret.value._train_dataset_hash = ret.train_dataset.hash
       /\ \A d \in TrainDatasets :
             d.bucket # ret.train_dataset.bucket
             => Model(ret.name, ret.model, d, ret.metadata, clock, environ, "none")
                  # ret.value

\* C20: put_model_to_s3 that the store accepts issues one upload to the bucket
\* under normalised folder + make_timestamped_filename(name, creation time,
\* 'pkl'), the object stored there is the pickle of the whole envelope, and the
\* returned string is the bucket, '/', and that key, for every folder.
C20_PutModelLocation ==
    (ret.op = "Model.put_model_to_s3" /\ ret.fault = "none")
    => LET filename == make_timestamped_filename(ret.self._name,
                                                 ret.self._creation_time, Pkl)
           key      == (IF ret.folder = <<>> \/ ret.folder[Len(ret.folder)] = "/"
                        THEN ret.folder ELSE ret.folder \o <<"/">>) \o filename
       IN  /\ ~Raised(ret.value)
           /\ calls = <<[api |-> "upload_file", Bucket |-> ret.bucket, Key |-> key]>>
           /\ \E i \in StoredAt(ret.bucket, key) : store[i].body = pickle_dumps(ret.self)
           /\ ret.value.bucket = ret.bucket
           /\ ret.value.path = key

----------------------------------------------------------------------------
(* Claims about get_latest_pkl_model_from_s3, checked under SpecPickle.     *)

\* a get_latest_pkl_model_from_s3 whose listing and fetch both succeeded
PklFetched ==
    /\ ret.op = "get_latest_pkl_model_from_s3"
    /\ ret.list_fault = "none"
    /\ ret.get_fault = "none"
    /\ Len(calls) = 2

\* what pickle.loads makes of the bytes stored at the key that was fetched
LoadedFromFetched ==
    pickle_loads(CHOOSE bytes \in StoredBytes(calls[2].Bucket, calls[2].Key) : TRUE)

\* C21: get_latest_pkl_model_from_s3 returns a value only when the bytes of
\* the latest pkl artefact deserialize to a Model envelope: it raises 'could
\* not be unpickled' when loads raises UnpicklingError and 'not type Model'
\* whenever loads succeeds with an object that is no envelope, so that a
\* non-envelope object is never returned.
C21_OnlyEnvelopesReturned ==
    PklFetched
    => /\ (Raised(LoadedFromFetched) /\ LoadedFromFetched.exc = "UnpicklingError")
            => ret.value = Raise("RuntimeError", "could not be unpickled.")
       /\ (~Raised(LoadedFromFetched) /\ LoadedFromFetched.kind # "Model")
            => ret.value = Raise("RuntimeError", "is not type Model.")
       /\ ~Raised(ret.value) => ret.value.kind = "Model"

----------------------------------------------------------------------------
(* Claims about upload keys and local files, checked under SpecUpload.      *)

\* the folder with one "/" appended, unless it is empty or ends in "/"
Normalized(folder) ==
    IF folder = <<>> THEN <<>>
    ELSE IF folder[Len(folder)] = "/" THEN folder
    ELSE folder \o <<"/">>

\* what follows the last "/" of a path
BaseName(path) ==
    LET slashes == {i \in DOMAIN path : path[i] = "/"}
        last    == IF slashes = {} THEN 0
                   ELSE CHOOSE i \in slashes : \A j \in slashes : j <= i
    IN  SubSeq(path, last + 1, Len(path))

\* the object name of the upload that returned: an override that is None or
\* the empty string is an override not given
UploadName ==
    IF ret.op = "put_object_to_s3" THEN ret.file_name
    ELSE IF ret.filename_override = None \/ ret.filename_override.value = <<>>
    THEN BaseName(ret.path_to_file)
    ELSE ret.filename_override.value

StoreRejections == {"ClientError", "S3UploadFailedError"}

\* C23: put_file_to_s3 with a local path that does not exist raises 'Cannot
\* open file at ...', issues no upload call and leaves the store as it was;
\* with a path that exists and an upload the store rejects it raises 'could
\* upload file to AWS S3'.
C23_MissingFileOrUploadError ==
    [][ret'.op = "put_file_to_s3"
       => /\ ~PathExists(LocalFiles, ret'.path_to_file)
               => /\ ret'.value = Raise("FileExistsError", "Cannot open file at")
                  /\ calls' = <<>>
                  /\ store' = store
          /\ (PathExists(LocalFiles, ret'.path_to_file) /\ ret'.fault \in StoreRejections)
               => /\ ret'.value = Raise("RuntimeError", "could upload file to AWS S3")
                  /\ store' = store]_vars

----------------------------------------------------------------------------
(* Claims about temporary files, checked under SpecModel.                   *)

\* C24: every dataset put and every put_model_to_s3 has deleted the temporary
\* file it created by the time it returns or raises, whether the upload was
\* accepted, the encoding failed or the upload failed: in every state, after
\* any sequence of such calls, no temporary file remains on the disk.
C24_NoTemporaryFileRemains == temp_files = {}

\* a put whose encoding failed, after an envelope put that the store accepted
C24_Witness ==
    /\ ret.op = "put_parquet_dataset_to_s3"
    /\ Raised(ret.value)
    /\ ret.value.exc = "ArrowTypeError"
    /\ calls = <<>>
    /\ store # <<>>
    /\ temp_files = {}

----------------------------------------------------------------------------
(* Claims about a get-latest beside another writer, checked under SpecRace. *)

\* C25: whenever a get-latest returns a Dataset, the store holds, at the
\* moment of the fetch, an object in the Dataset's bucket and at its key whose
\* bytes are those the table was decoded from and whose entity tag is the
\* Dataset's hash, also when another writer replaced the object between the
\* listing and the fetch.
C25_DatasetDescribesFetchedVersion ==
    [][(Listed /\ ret'.pc = "done" /\ ret'.value.kind = "Dataset")
       => \E i \in StoredAt(ret'.value.bucket, ret'.value.key) :
             /\ store[i].body = ret'.value.data.source
             /\ store[i].etag = ret'.value.hash]_vars

----------------------------------------------------------------------------
(* Claims about ties and separators, checked under Spec and SpecCodec.      *)

\* the places in the store of the listed objects that are valid, of the
\* requested format, and of the greatest timestamp among those
TiedLatest ==
    LET valid == ValidListed(ret.bucket, ret.folder, ret.file_format)
    IN  {i \in DOMAIN store :
            \E a \in valid :
                /\ a.obj_key = store[i].key
                /\ a.etag = store[i].etag
                /\ \A b \in valid : ~DateTimeLess(a.timestamp, b.timestamp)}

\* C26: when several valid objects of the requested format share the greatest
\* timestamp the resolver returns the one the listing placed last among them,
\* whatever their keys and entity tags.
C26_LastListedOfTies ==
    (FindReturned /\ ret.fault = "none" /\ TiedLatest # {})
    => LET last == CHOOSE i \in TiedLatest : \A j \in TiedLatest : j <= i
       IN  /\ IsArtefact(ret.value)
           /\ ret.value.obj_key = store[last].key
           /\ ret.value.etag = store[last].etag

\* two objects of one instant, the one with the smaller key and the smaller
\* entity tag listed last and returned
C26_Witness ==
    /\ FindReturned
    /\ ret.fault = "none"
    /\ Cardinality(TiedLatest) = 2
    /\ store = <<Object("my-bucket", Key_0708_CSV, "etag4", "bytes4"),
                 Object("my-bucket", Key_0608_csv, "etag1", "bytes1"),
                 Object("my-bucket", Key_0708_csv, "etag2", "bytes2")>>
    /\ IsArtefact(ret.value)
    /\ ret.value.obj_key = Key_0708_csv
    /\ ret.value.etag = "etag2"

\* the digits of the leftmost match of s denote a date-time that exists
DenotesInstant(s) ==
    LET m == FirstTimestampMatch(s)
    IN  /\ m # <<>>
        /\ ValidFields(ParseInt(SubSeq(m, 1, 4)), ParseInt(SubSeq(m, 6, 7)),
                       ParseInt(SubSeq(m, 9, 10)),
                       IF Len(m) = 19 THEN ParseInt(SubSeq(m, 12, 13)) ELSE 0,
                       IF Len(m) = 19 THEN ParseInt(SubSeq(m, 15, 16)) ELSE 0,
                       IF Len(m) = 19 THEN ParseInt(SubSeq(m, 18, 19)) ELSE 0)

\* C27: for every key whose leftmost match is YYYY?MM?DD or
\* YYYY?MM?DD[ |T]HH?MM?SS, each ? any single non-word character in the date
\* part as in the time part, the timestamp decode returns the date-time the
\* digits denote, and neither no-timestamp nor a failure.
C27_AnySeparatorDecodes ==
    (ret.op = "_extract_iso_timestamp_from_string" /\ DenotesInstant(ret.s))
    => ret.value = ClaimedTimestamp(ret.s)

----------------------------------------------------------------------------
(* Claims about persist-then-retrieve, checked under SpecPickle and         *)
(* SpecDataset.                                                             *)

\* an envelope put that returned its location
ModelPutReturned == ret.op = "Model.put_model_to_s3" /\ ~Raised(ret.value)

\* no pkl artefact under the folder of the put is later than the envelope
NoLaterPkl ==
    \A a \in ValidListed(ret.bucket, ret.folder, Pkl) :
        ~TupleLess(<<ret.self._creation_time.year, ret.self._creation_time.month,
                     ret.self._creation_time.day, ret.self._creation_time.hour,
                     ret.self._creation_time.minute, ret.self._creation_time.second>>,
                   <<a.timestamp.year, a.timestamp.month, a.timestamp.day,
                     a.timestamp.hour, a.timestamp.minute, a.timestamp.second>>)

\* C28: after put_model_to_s3(bucket, folder) has succeeded for an envelope M,
\* and while no pkl artefact under the folder has a later timestamp,
\* get_latest_pkl_model_from_s3(bucket, folder) fetches the key the put wrote
\* and returns an envelope equal to M with M's model hash.
C28_EnvelopeRoundTrip ==
    (ModelPutReturned /\ NoLaterPkl)
    => \E got \in {get_latest_pkl_model_from_s3(ret.bucket, ret.folder, "none", "none")} :
          /\ Len(got.calls) = 2
          /\ got.calls[2].Key = calls[1].Key
          /\ got.value.kind = "Model"
          /\ Model__eq__(ret.self, got.value)
          /\ got.value._model_hash = ret.self._model_hash

\* what a get-latest of the format named by tag returns for bucket and folder,
\* the store answering every call
LatestDataset(tag, bucket, folder) ==
    IF tag = Csv
    THEN get_latest_csv_dataset_from_s3(bucket, folder, "none", "none").value
    ELSE get_latest_parquet_dataset_from_s3(bucket, folder, "none", "none").value

\* the reference timestamp as the key carries it: cut to the second
ToSecond(t) == DateTime(t.year, t.month, t.day, t.hour, t.minute, t.second, 0)

\* C29: in a sequence of dataset puts into one bucket and folder, a put of
\* format f whose reference timestamp is newer than every artefact of f there
\* becomes what get-latest of f returns, a put with an older reference
\* timestamp leaves what get-latest of f returns as it was, and a put of the
\* other format never changes what get-latest of f returns.
C29_LatestFollowsPuts ==
    [][\A f \in {Csv, Parquet}, bucket \in UploadBuckets, folder \in Folders :
          (/\ ret'.op = (IF f = Csv THEN "put_csv_dataset_to_s3"
                         ELSE "put_parquet_dataset_to_s3")
           /\ ret'.bucket = bucket /\ ret'.folder = folder
           /\ ret'.fault = "none" /\ ret'.data = Table_yx)
          => LET other  == IF f = Csv THEN Parquet ELSE Csv
                 ts     == ToSecond(ret'.ref_datetime)
                 before == LatestDataset(f, bucket, folder)
                 after  == LatestDataset(f, bucket, folder)'
             IN  /\ ~Raised(ret'.value)
                 /\ (Raised(before) \/ DateTimeLess(before.datetime, ts))
                      => /\ after.kind = "Dataset"
                         /\ after.datetime = ts
                         /\ after.key = PutKey'
                         /\ after.data.source = (IF f = Csv THEN to_csv(ret'.data)
                                                 ELSE to_parquet(ret'.data))
                 /\ (~Raised(before) /\ DateTimeLess(ts, before.datetime))
                      => after = before
                 /\ LatestDataset(other, bucket, folder)'
                      = LatestDataset(other, bucket, folder)]_vars

====
